---- MODULE Spec2Model ----
(***************************************************************************)
(* Verification model of the privacy core of incognito-chain-privacy:      *)
(* the scalar facade (crypto/scalar.go), the MLSAG ring signature with     *)
(* double-spend columns (ringsignature/mlsag.go) and the Bulletproof range *)
(* proofs (bulletproof/bulletproof.go, bulletproof/utils.go).              *)
(*                                                                         *)
(* Go slices are functions over 0..len-1, so that every index expression   *)
(* of the source keeps its value.  A Scalar is the little-endian value of  *)
(* its 32-byte key; a Point is a pair <<a, b>> over the scalar field: a is *)
(* the component over the base point G, b the component over the           *)
(* hash-derived generators, which no known relation ties to G.             *)
(***************************************************************************)
EXTENDS Integers, Sequences, FiniteSets, TLC

VARIABLES
    wit,        \* Mlsag_Witness handed to the prover
    seed,       \* entropy source of the next prover call
    proof,      \* Mlsag_Proof object (its c0 field is the shared *Scalar cell)
    proveRes,   \* "none" | "ok" | "error" | "panic": outcome of Mlsag_Prove
    sent,       \* the proof as it was when first handed to the verifier
    tamper,     \* "none" | "c0" | "r": the field replaced after proving
    verdicts,   \* results of the verifier calls made on proof, in order
    other,      \* a second, independent prover run: [wit, seed, res, proof]
    prover,     \* which range prover made proof: "agg", "single" or "none"
    encoded,    \* the output of proof.Bytes(), <<>> before the call
    parsed,     \* the outcome of SetBytes(encoded) on a new proof: [res, proof]
    results,    \* the verdicts of the range-proof verifiers, by call
    tableWrites,\* entries of the shared generator tables written since
                \* initialization, with the value each holds now
    threads,    \* the call each thread runs on the generator tables
    pureCall,   \* a call of a function without side effects: name and
                \* arguments
    pureRet     \* [done, value]: what pureCall returned

vars == <<wit, seed, proof, proveRes, sent, tamper, verdicts, other,
          prover, encoded, parsed, results, tableWrites, threads,
          pureCall, pureRet>>

paramVars == <<tableWrites, threads>>
pureVars == <<pureCall, pureRet>>

mlsagVars == <<sent, verdicts, other>>
bulletVars == <<prover, encoded, parsed, results>>

(***************************************************************************)
(* Bounds of the model                                                     *)
(***************************************************************************)
MaxCols == 2        \* columns m of the key matrix range over 1..MaxCols
MaxKey == 2         \* secret keys range over 1..MaxKey
MaxSeed == 1        \* entropy sources range over 0..MaxSeed
MaxVerify == 2      \* verifier calls made on one proof object

(***************************************************************************)
(* Program constants                                                       *)
(***************************************************************************)
RingSize == 8
Ed25519KeySize == 32
\* order of the scalar field (the model's prime stands for the curve order l)
CurveOrder == 13

Len0(s) == Cardinality(DOMAIN s)
\* a slice filled by index; the comparison makes TLC evaluate every element
\* once, here, instead of at each later application
Slice0(n, F(_)) ==
    LET f == [k \in 0..(n - 1) |-> F(k)]
    IN  IF f = <<>> THEN <<>> ELSE f

(***************************************************************************)
(* Bytes, digests and the entropy source.  Every byte string that is       *)
(* hashed is a concatenation of 32-byte keys (C25519.Key); it is kept as   *)
(* the sequence of those keys, a key <<b0, b1>> being the 32 bytes         *)
(* b0, b1, 0, ..., 0.                                                      *)
(***************************************************************************)
RECURSIVE DigestPow(_)
DigestPow(e) ==
    IF e = 0 THEN 1
    ELSE LET h == DigestPow(e \div 2)
         IN  IF e % 2 = 0 THEN (h * h) % 32749 ELSE (((h * h) % 32749) * 263) % 32749

\* sum over k in lo..hi of (the key b[k]) * 263^(hi - k), by halving the range
RECURSIVE DigestRange(_, _, _)
DigestRange(b, lo, hi) ==
    IF lo > hi THEN 0
    ELSE IF lo = hi THEN (b[lo][1] * 257 + b[lo][2] + 1) % 32749
    ELSE LET mid == (lo + hi) \div 2
         IN  (DigestRange(b, lo, mid) * DigestPow(hi - mid)
              + DigestRange(b, mid + 1, hi)) % 32749

\* the 256-bit digest both hash functions reduce: a polynomial in the keys
\* of the byte string b
Digest(b) == (17 * DigestPow(Len(b)) + DigestRange(b, 1, Len(b))) % 32749

\* RandomScalar(): the k-th scalar drawn from entropy source s
RandomScalar(s, k) == Digest(<<<<s, k>>, <<101, 0>>>>) % CurveOrder

(***************************************************************************)
(* Scalars                                                                 *)
(***************************************************************************)
ScalarValid(a) == a < CurveOrder
ScalarAdd(a, b) == (a + b) % CurveOrder
ScalarSub(a, b) == ((a % CurveOrder) + CurveOrder - (b % CurveOrder)) % CurveOrder
ScalarMul(a, b) == (a * b) % CurveOrder
ScalarToBytes(a) == << <<a, 0>> >>
\* HashToScalar: reduce the digest; the zero scalar (probability 2^-252) is
\* outside the model's range
HashToScalar(b) == 1 + (Digest(b) % (CurveOrder - 1))
\* CompareScalar: byte-wise comparison from the most significant byte
CompareScalar(a, b) == IF a > b THEN 1 ELSE IF a < b THEN -1 ELSE 0

(***************************************************************************)
(* Points                                                                  *)
(***************************************************************************)
G == <<1, 0>>
PointAdd(P, Q) == <<(P[1] + Q[1]) % CurveOrder, (P[2] + Q[2]) % CurveOrder>>
ScalarMult(P, a) == <<(P[1] * a) % CurveOrder, (P[2] * a) % CurveOrder>>
ScalarMultBase(a) == ScalarMult(G, a)
\* AddPedersen(a, A, b, B) = a*A + b*B
AddPedersen(a, A, b, B) == PointAdd(ScalarMult(A, a), ScalarMult(B, b))
PointValid(P) == P[1] < CurveOrder /\ P[2] < CurveOrder
PointToBytes(P) == << <<P[1], P[2]>> >>
\* HashToPoint: a point with a unit component outside the span of G
HashToPoint(b) == <<(Digest(b) \div 11) % CurveOrder, 1>>

RECURSIVE AppendPointsFrom(_, _, _)
AppendPointsFrom(bytes, points, k) ==
    IF k > Len(points) THEN bytes
    ELSE AppendPointsFrom(bytes \o PointToBytes(points[k]), points, k + 1)

AppendPointsToBytesArray(bytes, points) == AppendPointsFrom(bytes, points, 1)

(***************************************************************************)
(* MLSAG with double-spend columns (ringsignature/mlsag.go)                *)
(***************************************************************************)
NoProof == [none |-> TRUE]

\* key_image(private, public) = private * HashToPoint(public.ToBytes())
key_image(private, public) ==
    ScalarMult(HashToPoint(PointToBytes(public)), private)

\* Mlsag_Prove's checks with the index test off by one (index >= n - 1)
Mlsag_ProveCheck_OffByOne(w) ==
    LET n == RingSize
        m == Len0(w.privateKey)
    IN  IF m < 2 THEN "error"
        ELSE IF w.index >= n - 1 THEN "error"
        ELSE IF w.dsCols > m THEN "error"
        ELSE IF Len0(w.publicKey) # n THEN "error"
        ELSE IF \E i \in 0..(n - 1) : Len0(w.publicKey[i]) # m THEN "error"
        ELSE "ok"

\* Mlsag_Prove, "validate witness": the error returned, or "ok"
Mlsag_ProveCheck(w) ==
    LET n == RingSize
        m == Len0(w.privateKey)
    IN  IF m < 2 THEN "error"
        ELSE IF w.index >= n THEN "error"
        ELSE IF w.dsCols > m THEN "error"
        ELSE IF Len0(w.publicKey) # n THEN "error"
        ELSE IF \E i \in 0..(n - 1) : Len0(w.publicKey[i]) # m THEN "error"
        ELSE "ok"

\* Mlsag_Prove, step 1: alpha[j] is the j-th draw of the entropy source
MlsagAlpha(w, s) == Slice0(Len0(w.privateKey), LAMBDA j : RandomScalar(s, j))

\* the key images taken from the ring row after the signer's
MlsagKeyImage_NextRow(w) ==
    Slice0(w.dsCols,
           LAMBDA j : key_image(w.privateKey[j],
                        HashToPoint(PointToBytes(
                            w.publicKey[(w.index + 1) % RingSize][j]))))

\* Mlsag_Prove, step 1: keyImage[j] = key_image(privateKey[j], Hi) with
\* Hi = HashToPoint(publicKey[index][j].ToBytes())
MlsagKeyImage(w) ==
    Slice0(w.dsCols,
           LAMBDA j : key_image(w.privateKey[j],
                                HashToPoint(PointToBytes(w.publicKey[w.index][j]))))

\* Mlsag_Prove, the two loops that build the first transcript
RECURSIVE MlsagFirstBytes(_, _, _, _)
MlsagFirstBytes(acc, j, w, alpha) ==
    IF j >= Len0(w.privateKey) THEN acc
    ELSE LET pk == w.publicKey[w.index][j]
             aG == ScalarMultBase(alpha[j])
             Hi == HashToPoint(PointToBytes(pk))
             aHP == ScalarMult(Hi, alpha[j])
         IN  IF j < w.dsCols
             THEN MlsagFirstBytes(AppendPointsToBytesArray(acc, <<pk, aG, aHP>>),
                                  j + 1, w, alpha)
             ELSE MlsagFirstBytes(AppendPointsToBytesArray(acc, <<pk, aG>>),
                                  j + 1, w, alpha)

\* One row of the hash chain: message || {key, L, R} for j < dsCols ||
\* {key, L} for j >= dsCols, where key = hashRow[j], L = r*G + c*row[j],
\* R = r*HashToPoint(row[j]) + c*keyImage[j]
RECURSIVE MlsagRowBytes(_, _, _, _, _, _, _, _)
MlsagRowBytes(acc, j, dsCols, hashRow, row, rrow, c, keyImage) ==
    IF j >= Len0(row) THEN acc
    ELSE LET L == AddPedersen(rrow[j], G, c, row[j])
         IN  IF j < dsCols
             THEN LET Hi == HashToPoint(PointToBytes(row[j]))
                      R == AddPedersen(rrow[j], Hi, c, keyImage[j])
                  IN  MlsagRowBytes(
                          AppendPointsToBytesArray(acc, <<hashRow[j], L, R>>),
                          j + 1, dsCols, hashRow, row, rrow, c, keyImage)
             ELSE MlsagRowBytes(
                      AppendPointsToBytesArray(acc, <<hashRow[j], L>>),
                      j + 1, dsCols, hashRow, row, rrow, c, keyImage)

\* Mlsag_Prove, the transcript of row i: the keys appended to the hash input
\* are wit.publicKey[index][j]
MlsagProveRowBytes(w, i, rrow, c, keyImage) ==
    MlsagRowBytes(PointToBytes(w.message), 0, w.dsCols,
                  w.publicKey[w.index], w.publicKey[i], rrow, c, keyImage)

\* an entry of r after make([]*crypto.Scalar, m): the nil pointer
NilScalar == -1

\* Mlsag_Prove, "for i != index": st.c_old is the value of the Scalar that
\* c_old points to, st.c0IsCOld tells whether c0 points to that same Scalar,
\* st.t counts the iterations (the draws made so far are m + t*m),
\* st.rows lists the values of i the body ran with,
\* st.cAtZero is what c_old pointed to held when "if i == 0" last saw i = 0
RECURSIVE MlsagProveLoop(_, _, _, _)
MlsagProveLoop(w, s, keyImage, st) ==
    IF st.i = w.index THEN st
    ELSE LET m == Len0(w.privateKey)
             rrow == Slice0(m, LAMBDA j : RandomScalar(s, m + st.t * m + j))
             c == HashToScalar(MlsagProveRowBytes(w, st.i, rrow, st.c_old, keyImage))
             i2 == (st.i + 1) % RingSize
         IN  MlsagProveLoop(w, s, keyImage,
                 [i |-> i2,
                  c_old |-> c,
                  c |-> c,
                  c0IsCOld |-> (st.c0IsCOld \/ i2 = 0),
                  cAtZero |-> IF i2 = 0 THEN c ELSE st.cAtZero,
                  r |-> [st.r EXCEPT ![st.i] = rrow],
                  rows |-> Append(st.rows, st.i),
                  t |-> st.t + 1])

\* the run with i starting at index instead of (index + 1) % n
MlsagProveRun_FromIndex(w, s) ==
    LET n == RingSize
        m == Len0(w.privateKey)
        first == HashToScalar(MlsagFirstBytes(PointToBytes(w.message), 0, w,
                                              MlsagAlpha(w, s)))
        i0 == w.index
    IN  MlsagProveLoop(w, s, MlsagKeyImage(w),
            [i |-> i0, c_old |-> first, c |-> 0, c0IsCOld |-> (i0 = 0),
             cAtZero |-> IF i0 = 0 THEN first ELSE 0,
             r |-> [i \in 0..(n - 1) |-> [j \in 0..(m - 1) |-> NilScalar]],
             rows |-> <<>>,
             t |-> 0])

\* Mlsag_Prove from the first hash to the end of "for i != index"
MlsagProveRun(w, s) ==
    LET n == RingSize
        m == Len0(w.privateKey)
        first == HashToScalar(MlsagFirstBytes(PointToBytes(w.message), 0, w,
                                              MlsagAlpha(w, s)))
        i0 == (w.index + 1) % n
    IN  MlsagProveLoop(w, s, MlsagKeyImage(w),
            [i |-> i0, c_old |-> first, c |-> 0, c0IsCOld |-> (i0 = 0),
             cAtZero |-> IF i0 = 0 THEN first ELSE 0,
             r |-> [i \in 0..(n - 1) |-> [j \in 0..(m - 1) |-> NilScalar]],
             rows |-> <<>>,
             t |-> 0])

\* Mlsag_Prove: the proof returned for a witness that passed the checks
MlsagProveOk(w, s) ==
    LET m == Len0(w.privateKey)
        alpha == MlsagAlpha(w, s)
        keyImage == MlsagKeyImage(w)
        fin == MlsagProveRun(w, s)
        rIndex == Slice0(m, LAMBDA j :
                      ScalarSub(alpha[j], ScalarMul(fin.c, w.privateKey[j])))
    IN  [c0 |-> IF fin.c0IsCOld THEN fin.c_old ELSE 0,
         r |-> [fin.r EXCEPT ![w.index] = rIndex],
         keyImage |-> keyImage,
         dsCols |-> w.dsCols,
         publicKey |-> w.publicKey,
         message |-> w.message]

\* Mlsag_Prove: publicKey[index] with a negative index is a run-time panic
Mlsag_Prove(w, s) ==
    LET chk == Mlsag_ProveCheck(w)
    IN  IF chk # "ok" THEN [res |-> "error", proof |-> NoProof]
        ELSE IF w.index < 0 THEN [res |-> "panic", proof |-> NoProof]
        ELSE [res |-> "ok", proof |-> MlsagProveOk(w, s)]

\* the validation without the check of c0
Mlsag_VerifyCheck_NoScalarCheck(p) ==
    LET n == RingSize
        m == Len0(p.publicKey[0])
    IN  IF m < 2 THEN "error"
        ELSE IF p.dsCols > m THEN "error"
        ELSE IF p.dsCols # Len0(p.keyImage) THEN "error"
        ELSE IF Len0(p.publicKey) # n THEN "error"
        ELSE IF \E i \in 1..(n - 1) : Len0(p.publicKey[i]) # m THEN "error"
        ELSE IF Len0(p.r) # n THEN "error"
        ELSE IF \E i \in 0..(n - 1) : Len0(p.r[i]) # m THEN "error"
        ELSE IF \E j \in 0..(p.dsCols - 1) : ~PointValid(p.keyImage[j]) THEN "error"
        ELSE "ok"

\* Mlsag_Verify, "validate proof": the error returned, or "ok"
Mlsag_VerifyCheck(p) ==
    LET n == RingSize
        m == Len0(p.publicKey[0])
    IN  IF m < 2 THEN "error"
        ELSE IF p.dsCols > m THEN "error"
        ELSE IF p.dsCols # Len0(p.keyImage) THEN "error"
        ELSE IF Len0(p.publicKey) # n THEN "error"
        ELSE IF \E i \in 1..(n - 1) : Len0(p.publicKey[i]) # m THEN "error"
        ELSE IF Len0(p.r) # n THEN "error"
        ELSE IF \E i \in 0..(n - 1) : Len0(p.r[i]) # m THEN "error"
        ELSE IF \E j \in 0..(p.dsCols - 1) : ~PointValid(p.keyImage[j]) THEN "error"
        ELSE IF ~ScalarValid(p.c0) THEN "error"
        ELSE "ok"

\* Mlsag_Verify, the transcript of row i: the keys appended to the hash
\* input are proof.publicKey[i][j]
MlsagVerifyRowBytes(p, i, c) ==
    MlsagRowBytes(PointToBytes(p.message), 0, p.dsCols,
                  p.publicKey[i], p.publicKey[i], p.r[i], c, p.keyImage)

\* Mlsag_Verify, "for i := 0; i < n; i++": c_old is proof.c0 itself
\* (c_old := proof.c0 copies the pointer), so c_old.Set(c) writes the
\* Scalar the proof holds; st.c0 is the value of that Scalar
RECURSIVE MlsagVerifyLoop(_, _)
MlsagVerifyLoop(p, st) ==
    IF st.i >= RingSize THEN st
    ELSE LET c == HashToScalar(MlsagVerifyRowBytes(p, st.i, st.c0))
         IN  MlsagVerifyLoop(p, [i |-> st.i + 1, c |-> c, c0 |-> c])

\* Mlsag_Verify: the verdict, and the value proof.c0 holds after the call
Mlsag_Verify(p) ==
    IF Mlsag_VerifyCheck(p) # "ok"
    THEN [res |-> FALSE, err |-> TRUE, c0 |-> p.c0]
    ELSE LET fin == MlsagVerifyLoop(p, [i |-> 0, c |-> 0, c0 |-> p.c0])
         IN  [res |-> (CompareScalar(fin.c, fin.c0) = 0), err |-> FALSE, c0 |-> fin.c0]

(***************************************************************************)
(* MLSAG with a key image for every column: the witness has no dsCols and  *)
(* the prover keeps the challenges in an array c of n entries              *)
(***************************************************************************)
\* step 1: keyImage[j] = key_image(privateKey[j], publicKey[index][j])
FullKeyImage(w) ==
    Slice0(Len0(w.privateKey),
           LAMBDA j : key_image(w.privateKey[j], w.publicKey[w.index][j]))

\* step 2: r[i][j] is draw i*m + j of the entropy source
FullRandoms(w, s) ==
    Slice0(RingSize, LAMBDA i :
        Slice0(Len0(w.privateKey),
               LAMBDA j : RandomScalar(s, i * Len0(w.privateKey) + j)))

\* "compute c[index] first": message || {alpha*G, alpha*Hp(K[index][j])}
RECURSIVE FullFirstBytes(_, _, _, _)
FullFirstBytes(acc, j, w, alpha) ==
    IF j >= Len0(w.privateKey) THEN acc
    ELSE LET gTmp == ScalarMultBase(alpha[j])
             hTmp == ScalarMult(HashToPoint(PointToBytes(w.publicKey[w.index][j])),
                                alpha[j])
         IN  FullFirstBytes(AppendPointsToBytesArray(acc, <<gTmp, hTmp>>),
                            j + 1, w, alpha)

\* one row of the hash chain: message || {gTmp, hTmp} for every j, with
\* gTmp = rand*G + c*K[i][j] and hTmp = rand*Hp(K[i][j]) + c*keyImage[j]
RECURSIVE FullRowBytes(_, _, _, _, _, _)
FullRowBytes(acc, j, row, rrow, c, keyImage) ==
    IF j >= Len0(rrow) THEN acc
    ELSE LET gTmp == AddPedersen(rrow[j], G, c, row[j])
             hTmp == AddPedersen(rrow[j], HashToPoint(PointToBytes(row[j])),
                                 c, keyImage[j])
         IN  FullRowBytes(AppendPointsToBytesArray(acc, <<gTmp, hTmp>>),
                          j + 1, row, rrow, c, keyImage)

\* "for i := index+1; ; i++": i is the counter before "i = i % n", c the
\* array of challenges
RECURSIVE FullProveLoop(_, _, _, _, _)
FullProveLoop(w, r, keyImage, c, i) ==
    LET n == RingSize
        row == i % n
        hash == HashToScalar(FullRowBytes(PointToBytes(w.message), 0,
                                 w.publicKey[row], r[row], c[row], keyImage))
        tmpIndex == (row + 1) % n
        filled == [c EXCEPT ![tmpIndex] = hash]
    IN  IF tmpIndex = w.index THEN filled
        ELSE FullProveLoop(w, r, keyImage, filled, row + 1)

\* Mlsag_Prove of the witness without dsCols: publicKey[index] outside the
\* matrix and c[index+1] with index + 1 = n are run-time panics (index out
\* of range)
Full_Mlsag_Prove(w, s) ==
    LET n == RingSize
        m == Len0(w.privateKey)
        index == w.index
    IN  IF index < 0 \/ index >= Len0(w.publicKey) THEN [res |-> "panic"]
        ELSE IF index + 1 >= n THEN [res |-> "panic"]
        ELSE
        LET keyImage == FullKeyImage(w)
            r == FullRandoms(w, s)
            first == HashToScalar(FullFirstBytes(PointToBytes(w.message), 0,
                                                 w, r[index]))
            c == FullProveLoop(w, r, keyImage,
                     [[k \in 0..(n - 1) |-> 0] EXCEPT ![index + 1] = first],
                     index + 1)
            rIndex == Slice0(m, LAMBDA j :
                          ScalarSub(r[index][j],
                                    ScalarMul(c[index], w.privateKey[j])))
        IN  [res |-> "ok",
             proof |-> [c0 |-> c[0],
                        r |-> [r EXCEPT ![index] = rIndex],
                        publicKey |-> w.publicKey,
                        k |-> keyImage,
                        message |-> w.message]]

\* Mlsag_Verify, "for i := 0; i < n; i++": c[(i+1) % n] from row i and c[i]
RECURSIVE FullVerifyLoop(_, _, _)
FullVerifyLoop(p, c, i) ==
    IF i >= RingSize THEN c
    ELSE LET hash == HashToScalar(FullRowBytes(PointToBytes(p.message), 0,
                                      p.publicKey[i], p.r[i], c[i], p.k))
         IN  FullVerifyLoop(p, [c EXCEPT ![(i + 1) % RingSize] = hash], i + 1)

\* Mlsag_Verify of the proof without dsCols: c[0] is a copy of proof.c0
Full_Mlsag_Verify(p) ==
    LET c == FullVerifyLoop(p, [[k \in 0..(RingSize - 1) |-> 0] EXCEPT ![0] = p.c0], 0)
    IN  c[0] = p.c0

(***************************************************************************)
(* The MLSAG machine: a caller builds a witness, proves once, may replace  *)
(* one transmitted field of the proof, and calls the verifier on the same  *)
(* proof object up to MaxVerify times.                                     *)
(***************************************************************************)
NoParse == [res |-> "none", proof |-> NoProof]

MaxThreads == 2     \* threads calling into the range-proof package
MaxCalls == 2       \* calls one thread makes, one after the other

Threads == 1..MaxThreads

\* pc 0: between calls; pc k: about to make the k-th write of the call
IdleThread == [op |-> "none", pc |-> 0, calls |-> 0]

\* the generator tables as initialized, no thread in a call
ParamsIdle ==
    /\ tableWrites = <<>>
    /\ threads = [t \in Threads |-> IdleThread]

\* no call of a function without side effects
PureIdle ==
    /\ pureCall = [fn |-> "none"]
    /\ pureRet = [done |-> FALSE]

\* the range-proof part of the state, untouched
BulletIdle ==
    /\ prover = "none"
    /\ encoded = <<>>
    /\ parsed = NoParse
    /\ results = <<>>

Messages == {<<3, 1>>}
TamperDeltas == {1}

\* a ring member that is not the signer's: RandomPoint() of ring number ring
Decoy(ring, i, j) == <<1 + ((3 * i + 5 * j + 7 * ring) % (CurveOrder - 1)), 0>>

\* the witness the tests build: publicKey[index][j] = privateKey[j] * G
MkWitness(sk, index, dsCols, ring, msg) ==
    [privateKey |-> sk,
     index |-> index,
     dsCols |-> dsCols,
     publicKey |-> [i \in 0..(RingSize - 1) |->
                       [j \in DOMAIN sk |->
                           IF i = index THEN ScalarMultBase(sk[j])
                           ELSE Decoy(ring, i, j)]],
     message |-> msg]

KeyLists(m) == [0..(m - 1) -> 1..MaxKey]

\* the signer's rows tried: both ends of the ring, an inner row, and the
\* two nearest values outside [0, n)
MlsagIndices == {-1, 0, 2, RingSize - 1, RingSize}

\* w with the last row of the public-key matrix missing
ShortRing(w) ==
    [w EXCEPT !.publicKey = Slice0(RingSize - 1, LAMBDA i : w.publicKey[i])]

\* w with the last entry of row i of the public-key matrix missing
ShortRow(w, i) ==
    [w EXCEPT !.publicKey[i] =
        Slice0(Len0(w.privateKey) - 1, LAMBDA j : w.publicKey[i][j])]

\* witnesses whose public-key matrix is not n rows of m entries
BadMatrixWitnesses ==
    UNION { { ShortRing(MkWitness(sk, index, 1, 0, msg)),
              ShortRow(MkWitness(sk, index, 1, 0, msg), 0),
              ShortRow(MkWitness(sk, index, 1, 0, msg), RingSize - 1) } :
            sk \in {[j \in 0..1 |-> 1]}, index \in {0, RingSize - 1},
            msg \in Messages }

\* every shape a caller may hand over, the ill-shaped ones included
MlsagWitnesses ==
    UNION { { MkWitness(sk, index, dsCols, 0, msg) :
                sk \in KeyLists(m), index \in MlsagIndices,
                dsCols \in 0..(m + 1), msg \in Messages }
            : m \in 1..MaxCols }
      \cup BadMatrixWitnesses

\* the witnesses of the data model: m >= 2, index in [0, n), dsCols in [1, m]
ValidWitness(w) ==
    /\ Len0(w.privateKey) >= 2
    /\ w.index \in 0..(RingSize - 1)
    /\ w.dsCols \in 1..Len0(w.privateKey)
    /\ Len0(w.publicKey) = RingSize
    /\ \A i \in 0..(RingSize - 1) : Len0(w.publicKey[i]) = Len0(w.privateKey)
    /\ \A j \in DOMAIN w.privateKey :
           w.publicKey[w.index][j] = ScalarMultBase(w.privateKey[j])

MlsagInit ==
    /\ wit \in MlsagWitnesses
    /\ seed \in 0..MaxSeed
    /\ proof = NoProof
    /\ proveRes = "none"
    /\ sent = NoProof
    /\ tamper = "none"
    /\ verdicts = <<>>
    /\ other = NoProof
    /\ BulletIdle
    /\ ParamsIdle
    /\ PureIdle

ProveCall ==
    /\ proveRes = "none"
    /\ LET out == Mlsag_Prove(wit, seed)
       IN  /\ proveRes' = out.res
           /\ proof' = out.proof
    /\ UNCHANGED <<wit, seed, sent, tamper, verdicts, other, bulletVars, paramVars, pureVars>>

TamperC0 ==
    /\ proveRes = "ok" /\ tamper = "none" /\ verdicts = <<>>
    /\ \E d \in TamperDeltas :
           proof' = [proof EXCEPT !.c0 = ScalarAdd(proof.c0, d)]
    /\ tamper' = "c0"
    /\ UNCHANGED <<wit, seed, proveRes, sent, verdicts, other, bulletVars, paramVars, pureVars>>

TamperR ==
    /\ proveRes = "ok" /\ tamper = "none" /\ verdicts = <<>>
    /\ \E i \in DOMAIN proof.r : \E j \in DOMAIN proof.r[i] : \E d \in TamperDeltas :
           proof' = [proof EXCEPT !.r[i][j] = ScalarAdd(proof.r[i][j], d)]
    /\ tamper' = "r"
    /\ UNCHANGED <<wit, seed, proveRes, sent, verdicts, other, bulletVars, paramVars, pureVars>>

\* a key that is no scalar and no point coordinate: the group order itself
InvalidKey == CurveOrder

\* c0 replaced by a non-canonical scalar
TamperC0Invalid ==
    /\ proveRes = "ok" /\ tamper = "none" /\ verdicts = <<>>
    /\ proof' = [proof EXCEPT !.c0 = InvalidKey]
    /\ tamper' = "c0.invalid"
    /\ UNCHANGED <<wit, seed, proveRes, sent, verdicts, other, bulletVars, paramVars, pureVars>>

\* one key image replaced by bytes that are no valid point
TamperKeyImageInvalid ==
    /\ proveRes = "ok" /\ tamper = "none" /\ verdicts = <<>>
    /\ \E j \in DOMAIN proof.keyImage :
           proof' = [proof EXCEPT !.keyImage[j] = <<InvalidKey, @[2]>>]
    /\ tamper' = "keyImage.invalid"
    /\ UNCHANGED <<wit, seed, proveRes, sent, verdicts, other, bulletVars, paramVars, pureVars>>

VerifyCall ==
    /\ proveRes = "ok" /\ Len(verdicts) < MaxVerify
    /\ LET out == Mlsag_Verify(proof)
       IN  /\ verdicts' = Append(verdicts, [res |-> out.res, err |-> out.err])
           /\ proof' = [proof EXCEPT !.c0 = out.c0]
    /\ sent' = IF verdicts = <<>> THEN proof ELSE sent
    /\ UNCHANGED <<wit, seed, proveRes, tamper, other, bulletVars, paramVars, pureVars>>

MlsagNext ==
    \/ ProveCall
    \/ TamperC0 \/ TamperR \/ TamperC0Invalid \/ TamperKeyImageInvalid
    \/ VerifyCall

SpecMlsag == MlsagInit /\ [][MlsagNext]_vars

(***************************************************************************)
(* Scalars and points used by the range proofs                             *)
(***************************************************************************)
RECURSIVE ScalarPow(_, _)
ScalarPow(a, e) ==
    IF e = 0 THEN 1 % CurveOrder
    ELSE LET h == ScalarPow(a, e \div 2)
         IN  IF e % 2 = 0 THEN (h * h) % CurveOrder
             ELSE (((h * h) % CurveOrder) * a) % CurveOrder

RECURSIVE ExpLoop(_, _, _)
ExpLoop(res, a, n) ==
    IF n <= 0 THEN res ELSE ExpLoop((res * a) % CurveOrder, a, n - 1)

\* Scalar.Exp(a, v): res = a*a, then int(v) - 2 further multiplications
\* by a (int(v) = v for the exponents used here)
ScalarExp(a, v) == ExpLoop((a * a) % CurveOrder, a, v - 2)

\* Scalar.Invert: big.Int ModInverse modulo the curve order; 0 when there
\* is no inverse
ScalarInvert(a) ==
    IF a % CurveOrder = 0 THEN 0
    ELSE CHOOSE b \in 1..(CurveOrder - 1) : (a * b) % CurveOrder = 1

\* Scalar.MulAdd(a, b, c) = a*b + c
ScalarMulAdd(a, b, c) == (a * b + c) % CurveOrder

\* a uint64 is its eight bytes, least significant first (what d2h writes)
U64(b0, b1, b2, b3, b4, b5, b6, b7) ==
    [k \in 0..7 |-> CASE k = 0 -> b0 [] k = 1 -> b1 [] k = 2 -> b2
                      [] k = 3 -> b3 [] k = 4 -> b4 [] k = 5 -> b5
                      [] k = 6 -> b6 [] OTHER -> b7]

\* Scalar.FromUint64: the key d2h(i), read as a little-endian number
FromUint64(v) ==
    LET Horner[k \in 0..8] ==
            IF k = 8 THEN 0 ELSE (v[k] + 256 * Horner[k + 1]) % CurveOrder
    IN  Horner[0]

SmallU64(i) == U64(i % 256, i \div 256, 0, 0, 0, 0, 0, 0)

\* d2h(val): a key of 32 zero bytes with the bytes of val written from
\* key[0] on, least significant first
d2h(val) == [i \in 0..31 |-> IF i < 8 THEN val[i] ELSE 0]

\* Key.ToBytes: the 32 bytes of the key in the order the key holds them
KeyToBytes(key) == key

\* big.Int.SetBytes(b).Uint64(): b read as a big-endian number, of which
\* the 64 low bits are returned, that is the last eight bytes of b, the
\* last being the least significant
BigEndianLow64(b) == [k \in 0..7 |-> b[Len0(b) - 1 - k]]

\* Scalar.ToUint64 of the scalar holding key
ToUint64(key) == BigEndianLow64(KeyToBytes(key))

\* crypto.ConvertUint64ToBinary(v, n): the n low bits of v as scalars
ConvertUint64ToBinary(v, n) ==
    Slice0(n, LAMBDA i : IF i < 64 THEN (v[i \div 8] \div (2 ^ (i % 8))) % 2
                         ELSE 0)

\* the second Pedersen base
H == <<0, 1>>
Identity == <<0, 0>>

\* Point.AddPedersenBase(a, b) = a*G + b*H
AddPedersenBase(a, b) == AddPedersen(a, G, b, H)

IsPointEqual(P, Q) == P = Q

RECURSIVE MultiScalarMultRange(_, _, _, _)
MultiScalarMultRange(scalars, points, lo, hi) ==
    IF lo > hi THEN Identity
    ELSE IF lo = hi THEN ScalarMult(points[lo], scalars[lo])
    ELSE LET mid == (lo + hi) \div 2
         IN  PointAdd(MultiScalarMultRange(scalars, points, lo, mid),
                      MultiScalarMultRange(scalars, points, mid + 1, hi))

\* Point.MultiScalarMult(scalars, points) = sum of scalars[i]*points[i]
MultiScalarMult(scalars, points) ==
    MultiScalarMultRange(scalars, points, 0, Len0(scalars) - 1)

(***************************************************************************)
(* curve25519/multiscalarmultkey.go                                        *)
(***************************************************************************)

\* the 32 bytes of a key holding the integer a < 2^31, least significant
\* first
ScalarKey(a) ==
    Slice0(32, LAMBDA n : IF n < 4 THEN (a \div (256 ^ n)) % 256 ELSE 0)

\* the unsigned radix-16 digits of a key: two of each byte, low first
UnsignedRadix16(k) ==
    Slice0(64, LAMBDA n : IF n % 2 = 0 THEN k[n \div 2] % 16
                          ELSE (k[n \div 2] \div 16) % 16)

\* a result of int8 arithmetic: the value wrapped into -128..127
Int8(x) == ((x + 128) % 256) - 128

\* the values step i of the recentring loop computes as int8, before they
\* are wrapped: digits[i] + 8, carry << 4, digits[i] - carry << 4 and
\* digits[i+1] + carry
RecenterWide(digits, i) ==
    LET carry == Int8(digits[i] + 8) \div 16
    IN  [sum |-> digits[i] + 8,
         carry |-> carry,
         shifted |-> carry * 16,
         low |-> digits[i] - Int8(carry * 16),
         high |-> digits[i + 1] + carry]

\* the step without the 8 added before the shift
RecenterStep_NoOffset(digits, i) ==
    LET carry == Int8(digits[i]) \div 16
    IN  [digits EXCEPT ![i] = Int8(@ - Int8(carry * 16)),
                       ![i + 1] = Int8(@ + carry)]

\* one step of the recentring loop: digits[i] into -8..7, the carry into
\* digits[i+1]
RecenterStep(digits, i) ==
    LET wide == RecenterWide(digits, i)
    IN  [digits EXCEPT ![i] = Int8(wide.low), ![i + 1] = Int8(wide.high)]

\* the steps lo..hi of the recentring loop, in order; the test on the
\* domain makes TLC finish the earlier steps before it starts the later
RECURSIVE RecenterRange(_, _, _)
RecenterRange(digits, lo, hi) ==
    IF lo = hi THEN RecenterStep(digits, lo)
    ELSE LET mid == (lo + hi) \div 2
             lower == RecenterRange(digits, lo, mid)
         IN  IF DOMAIN lower = {} THEN lower
             ELSE RecenterRange(lower, mid + 1, hi)

\* signedRadix16 without the recentring loop
signedRadix16_Unsigned(k) ==
    IF k[31] > 127 THEN [res |-> "panic"]
    ELSE [res |-> "ok", digits |-> UnsignedRadix16(k)]

\* signedRadix16(k): 64 digits d with sum of d[i] * 16^i = k, d[i] in
\* -8..7 for i < 63; panics on a key with the top bit set
signedRadix16(k) ==
    IF k[31] > 127 THEN [res |-> "panic"]
    ELSE [res |-> "ok", digits |-> RecenterRange(UnsignedRadix16(k), 0, 62)]

\* the group operations of the library on its point representations
GeAdd(P, Q) == PointAdd(P, Q)
GeDouble(P) == PointAdd(P, P)
GeNeg(P) == <<(CurveOrder - P[1]) % CurveOrder, (CurveOrder - P[2]) % CurveOrder>>

\* AiLs[i]: A, 2A, ..., 8A of points[i], each the one before plus A
RECURSIVE CachedMultiples(_, _)
CachedMultiples(A, j) ==
    IF j = 0 THEN <<A>>
    ELSE LET before == CachedMultiples(A, j - 1)
         IN  Append(before, GeAdd(A, before[j]))

\* "for k := int32(0); k < 8; k++": the test of equal(bAbs, k+1) is a
\* branch, and CachedGroupElementCMove runs in the taken branch only;
\* st.cur is cur, st.trace the branches and calls executed so far
RECURSIVE SelectLoop(_, _, _, _)
SelectLoop(multiples, bAbs, k, st) ==
    IF k >= 8 THEN st
    ELSE IF bAbs = k + 1
         THEN SelectLoop(multiples, bAbs, k + 1,
                  [cur |-> multiples[k + 1],
                   trace |-> st.trace \o <<"if taken", "CMove">>])
         ELSE SelectLoop(multiples, bAbs, k + 1,
                  [cur |-> st.cur, trace |-> Append(st.trace, "if skipped")])

\* one inner iteration for the digit b: cur.Zero(), the loop over k, then
\* the conditional move of minusCur into cur with the flag bNegative
SelectDigit(multiples, b) ==
    LET bAbs == IF b < 0 THEN 0 - b ELSE b
        st == SelectLoop(multiples, bAbs, 0, [cur |-> Identity, trace |-> <<>>])
    IN  [cur |-> IF b < 0 THEN GeNeg(st.cur) ELSE st.cur,
         trace |-> Append(st.trace, "CMove")]

\* cur of one inner iteration: zero, AiLs[j][bAbs - 1] when bAbs is one of
\* 1..8, negated when the digit is negative
DigitPoint(multiples, b) == SelectDigit(multiples, b).cur

\* cachedBase after the loop over j for digit position i
RECURSIVE CachedBase(_, _, _, _)
CachedBase(AiLs, digitsLs, i, j) ==
    IF j < 0 THEN Identity
    ELSE GeAdd(CachedBase(AiLs, digitsLs, i, j - 1),
               DigitPoint(AiLs[j], digitsLs[j][i]))

\* one pass of the loop over the digit positions: four doublings of r,
\* then cachedBase is added
MultiScalarMultKeyStep(r, AiLs, digitsLs, i) ==
    GeAdd(GeDouble(GeDouble(GeDouble(GeDouble(r)))),
          CachedBase(AiLs, digitsLs, i, Len0(digitsLs) - 1))

\* the passes for the digit positions hi, hi - 1, ..., lo, in that order;
\* the test on the length makes TLC finish the earlier passes before it
\* starts the later
RECURSIVE MultiScalarMultKeyLoop(_, _, _, _, _)
MultiScalarMultKeyLoop(r, AiLs, digitsLs, hi, lo) ==
    IF hi = lo THEN MultiScalarMultKeyStep(r, AiLs, digitsLs, hi)
    ELSE LET mid == (lo + hi) \div 2
             upper == MultiScalarMultKeyLoop(r, AiLs, digitsLs, hi, mid + 1)
         IN  IF Len(upper) # 2 THEN upper
             ELSE MultiScalarMultKeyLoop(upper, AiLs, digitsLs, mid, lo)

\* MultiScalarMultKey(points, scalars); pointLs has len(points) entries
\* and is indexed up to len(scalars)
MultiScalarMultKey(points, scalars) ==
    IF \/ \E i \in DOMAIN scalars : signedRadix16(ScalarKey(scalars[i])).res = "panic"
       \/ Len0(points) < Len0(scalars)
    THEN [res |-> "panic"]
    ELSE [res |-> "ok",
          value |-> MultiScalarMultKeyLoop(
                        Identity,
                        Slice0(Len0(scalars),
                               LAMBDA i : CachedMultiples(points[i], 7)),
                        Slice0(Len0(scalars),
                               LAMBDA i : signedRadix16(ScalarKey(scalars[i])).digits),
                        63, 0)]

\* the branches and conditional-move calls of a run of MultiScalarMultKey
\* that returns, for i = 63 down to 0 (entry 63 - i) and every j
MultiScalarMultKeyTrace(points, scalars) ==
    LET AiLs == Slice0(Len0(scalars), LAMBDA i : CachedMultiples(points[i], 7))
        digitsLs == Slice0(Len0(scalars),
                           LAMBDA i : signedRadix16(ScalarKey(scalars[i])).digits)
    IN  Slice0(64, LAMBDA t :
            Slice0(Len0(scalars), LAMBDA j :
                SelectDigit(AiLs[j], digitsLs[j][63 - t]).trace))

\* crypto.HashToPointFromIndex(index, tag): hash_to_point of tag || index
CStringBulletProof == <<98, 112>>
HashToPointFromIndex(index) ==
    HashToPoint(<<CStringBulletProof, <<index % 256, index \div 256>>>>)

(***************************************************************************)
(* bulletproof/utils.go                                                    *)
(***************************************************************************)
maxExp == 64
nOutPreComputeParam == 32
maxNOut == 32
maxNOutParam == 256

RECURSIVE padLoop(_, _)
padLoop(tmp, num) ==
    IF 2 * tmp >= num THEN 2 * tmp ELSE padLoop(2 * tmp, num)

\* pad without the cases of 1 and 2
pad_NoSmallCases(num) == padLoop(2, num)

\* pad(num): num for 1 and 2, else the first of 4, 8, 16, ... that is
\* at least num
pad(num) == IF num = 1 \/ num = 2 THEN num ELSE padLoop(2, num)

RECURSIVE PointsBytesRange(_, _, _)
PointsBytesRange(points, lo, hi) ==
    IF lo > hi THEN <<>>
    ELSE IF lo = hi THEN PointToBytes(points[lo])
    ELSE LET mid == (lo + hi) \div 2
         IN  PointsBytesRange(points, lo, mid)
                 \o PointsBytesRange(points, mid + 1, hi)

\* the bytes hashed into cs: every g, then every h, then u
ParamCsBytes(g, h, u) ==
    PointsBytesRange(g, 0, Len0(g) - 1)
        \o PointsBytesRange(h, 0, Len0(h) - 1) \o PointToBytes(u)

\* newBulletproofParams(m): the indices handed to HashToPointFromIndex for
\* g[i], for h[i] and for u
GeneratorIndices(m) ==
    LET capacity == maxExp * m
        maxCapacity == maxNOutParam * maxExp
    IN  [g |-> Slice0(capacity, LAMBDA i : i),
         h |-> Slice0(capacity, LAMBDA i : i + maxCapacity),
         u |-> 2 * maxCapacity]

newBulletproofParams(m) ==
    LET capacity == maxExp * m
        index == GeneratorIndices(m)
        g == Slice0(capacity, LAMBDA i : HashToPointFromIndex(index.g[i]))
        h == Slice0(capacity, LAMBDA i : HashToPointFromIndex(index.h[i]))
        u == HashToPointFromIndex(index.u)
    IN  [g |-> g, h |-> h, u |-> u,
         cs |-> ScalarToBytes(HashToScalar(ParamCsBytes(g, h, u)))]

BulletParam == newBulletproofParams(nOutPreComputeParam)
SingleBulletParam == newBulletproofParams(1)

getBulletproofParams(m) ==
    [g |-> Slice0(m * maxExp, LAMBDA i : BulletParam.g[i]),
     h |-> Slice0(m * maxExp, LAMBDA i : BulletParam.h[i]),
     u |-> BulletParam.u,
     cs |-> BulletParam.cs]

\* the points copied are BulletParam's, whatever g and h hold: only the
\* lengths of the arguments are used
setBulletproofParams(g, h) ==
    IF Len0(g) # Len0(h) THEN [err |-> TRUE]
    ELSE LET ng == Slice0(Len0(g), LAMBDA i : BulletParam.g[i])
             nh == Slice0(Len0(h), LAMBDA i : BulletParam.h[i])
         IN  [err |-> FALSE, g |-> ng, h |-> nh, u |-> BulletParam.u,
              cs |-> ScalarToBytes(
                         HashToScalar(ParamCsBytes(ng, nh, BulletParam.u)))]

RECURSIVE ConcatFrom(_, _)
ConcatFrom(values, k) ==
    IF k > Len(values) THEN <<>> ELSE values[k] \o ConcatFrom(values, k + 1)

generateChallenge(values) == HashToScalar(ConcatFrom(values, 1))

\* the byte strings a range prover hashes for its challenge y, z or x: cs,
\* the value commitment (V, empty in Agg_Prove), A, S, then y for z, and
\* T1, T2 for x; m holds the messages the prover has made so far
ProverTranscript(which, cs, V, m) ==
    <<cs>> \o V \o <<PointToBytes(m.A), PointToBytes(m.S)>> \o
    (CASE which = "y" -> <<>>
       [] which = "z" -> <<ScalarToBytes(m.y)>>
       [] OTHER -> <<PointToBytes(m.T1), PointToBytes(m.T2)>>)

\* the verifier's transcript for x without T2
VerifierTranscript_NoT2(which, cs, V, pf, y) ==
    <<cs>> \o V \o <<PointToBytes(pf.a), PointToBytes(pf.s)>> \o
    (CASE which = "y" -> <<>>
       [] which = "z" -> <<ScalarToBytes(y)>>
       [] OTHER -> <<PointToBytes(pf.t1)>>)

\* the byte strings a range verifier hashes to recalculate y, z or x from
\* the proof pf: cs, the value commitment (V, empty in the aggregated
\* verifiers), proof.a, proof.s, then y for z, and proof.t1, proof.t2 for x
VerifierTranscript(which, cs, V, pf, y) ==
    <<cs>> \o V \o <<PointToBytes(pf.a), PointToBytes(pf.s)>> \o
    (CASE which = "y" -> <<>>
       [] which = "z" -> <<ScalarToBytes(y)>>
       [] OTHER -> <<PointToBytes(pf.t1), PointToBytes(pf.t2)>>)

RECURSIVE Log2(_)
Log2(x) == IF x <= 1 THEN 0 ELSE 1 + Log2(x \div 2)

\* an estimate that leaves out the two length bytes
EstimateAggBulletProofSize_NoLengthBytes(nOutput) ==
    (nOutput + 2 * Log2(maxExp * pad(nOutput)) + 5) * Ed25519KeySize
        + 5 * Ed25519KeySize

\* EstimateAggBulletProofSize
EstimateAggBulletProofSize(nOutput) ==
    (nOutput + 2 * Log2(maxExp * pad(nOutput)) + 5) * Ed25519KeySize
        + 5 * Ed25519KeySize + 2

vectorAdd(a, b) == Slice0(Len0(a), LAMBDA i : ScalarAdd(a[i], b[i]))

RECURSIVE innerProductRange(_, _, _, _)
innerProductRange(a, b, lo, hi) ==
    IF lo > hi THEN 0
    ELSE IF lo = hi THEN ScalarMul(a[lo], b[lo])
    ELSE LET mid == (lo + hi) \div 2
         IN  ScalarAdd(innerProductRange(a, b, lo, mid),
                       innerProductRange(a, b, mid + 1, hi))

innerProduct(a, b) == innerProductRange(a, b, 0, Len0(a) - 1)

hadamardProduct(a, b) == Slice0(Len0(a), LAMBDA i : ScalarMul(a[i], b[i]))

\* res[0] = 1, res[i] = res[i-1] * base
powerVector(base, n) == Slice0(n, LAMBDA i : ScalarPow(base, i))

vectorAddScalar(v, s) == Slice0(Len0(v), LAMBDA i : ScalarAdd(v[i], s))

vectorMulScalar(v, s) == Slice0(Len0(v), LAMBDA i : ScalarMul(v[i], s))

encodeVectors(l, r, g, h) ==
    PointAdd(MultiScalarMult(l, g), MultiScalarMult(r, h))

(***************************************************************************)
(* The inner-product argument (design section 4.4): the proof is           *)
(* [l, r, a, b, p], l and r the points L_i and R_i of the rounds           *)
(***************************************************************************)
\* name a value once: F applied to v
Bind(v, F(_)) == F(v)

Half(v, from, n) == Slice0(n, LAMBDA i : v[from + i])

Append0(v, x) == Slice0(Len0(v) + 1, LAMBDA i : IF i < Len0(v) THEN v[i] ELSE x)

\* g'_i = g_L[i]^(1/x) * g_R[i]^x
FoldG(g, x) ==
    LET n == Len0(g) \div 2
    IN  Slice0(n, LAMBDA i : AddPedersen(ScalarInvert(x), g[i], x, g[n + i]))

\* h'_i = h_L[i]^x * h_R[i]^(1/x)
FoldH(h, x) ==
    LET n == Len0(h) \div 2
    IN  Slice0(n, LAMBDA i : AddPedersen(x, h[i], ScalarInvert(x), h[n + i]))

\* P' = L^(x^2) * P * R^(x^-2)
FoldP(P, L, R, x) ==
    LET xSquare == ScalarMul(x, x)
    IN  PointAdd(AddPedersen(xSquare, L, ScalarInvert(xSquare), R), P)

InnerProductChallenge(cs, P, L, R) ==
    generateChallenge(<<cs, PointToBytes(P), PointToBytes(L), PointToBytes(R)>>)

RECURSIVE InnerProductProveLoop(_, _)
InnerProductProveLoop(param, st) ==
    IF Len0(st.a) <= 1 THEN st
    ELSE LET n == Len0(st.a) \div 2
             aL == Half(st.a, 0, n)
             aR == Half(st.a, n, n)
             bL == Half(st.b, 0, n)
             bR == Half(st.b, n, n)
             gL == Half(st.g, 0, n)
             gR == Half(st.g, n, n)
             hL == Half(st.h, 0, n)
             hR == Half(st.h, n, n)
             L == PointAdd(encodeVectors(aL, bR, gR, hL),
                           ScalarMult(param.u, innerProduct(aL, bR)))
             R == PointAdd(encodeVectors(aR, bL, gL, hR),
                           ScalarMult(param.u, innerProduct(aR, bL)))
             x == InnerProductChallenge(param.cs, st.p, L, R)
             xInverse == ScalarInvert(x)
         IN  InnerProductProveLoop(param,
                 [g |-> FoldG(st.g, x),
                  h |-> FoldH(st.h, x),
                  a |-> vectorAdd(vectorMulScalar(aL, x),
                                  vectorMulScalar(aR, xInverse)),
                  b |-> vectorAdd(vectorMulScalar(bL, xInverse),
                                  vectorMulScalar(bR, x)),
                  p |-> FoldP(st.p, L, R, x),
                  l |-> Append0(st.l, L),
                  r |-> Append0(st.r, R)])

\* InnerProductWitness.Prove(param) on the witness w = [a, b, p]
InnerProductProve(w, param) ==
    LET fin == InnerProductProveLoop(param,
                   [g |-> param.g, h |-> param.h, a |-> w.a, b |-> w.b,
                    p |-> w.p, l |-> <<>>, r |-> <<>>])
    IN  [l |-> fin.l, r |-> fin.r, a |-> fin.a[0], b |-> fin.b[0],
         p |-> w.p]

\* the proof has one (L, R) pair for each halving of the generators
InnerProductShapeOk(pf, param) ==
    /\ Len0(pf.l) = Len0(pf.r)
    /\ 2 ^ Len0(pf.l) = Len0(param.g)

RECURSIVE InnerProductVerifyLoop(_, _, _)
InnerProductVerifyLoop(pf, param, st) ==
    IF st.i >= Len0(pf.l) THEN st
    ELSE LET x == InnerProductChallenge(param.cs, st.p,
                                        pf.l[st.i], pf.r[st.i])
         IN  InnerProductVerifyLoop(pf, param,
                 [i |-> st.i + 1,
                  g |-> FoldG(st.g, x),
                  h |-> FoldH(st.h, x),
                  p |-> FoldP(st.p, pf.l[st.i], pf.r[st.i], x)])

\* InnerProductProof.Verify(param): fold g, h and P round by round, then
\* check P_final = g_0^a * h_0^b * u^(a*b)
InnerProductVerify(pf, param) ==
    IF ~InnerProductShapeOk(pf, param) THEN FALSE
    ELSE LET fin == InnerProductVerifyLoop(pf, param,
                        [i |-> 0, g |-> param.g, h |-> param.h, p |-> pf.p])
             right == PointAdd(AddPedersen(pf.a, fin.g[0], pf.b, fin.h[0]),
                               ScalarMult(param.u, ScalarMul(pf.a, pf.b)))
         IN  IsPointEqual(fin.p, right)

RECURSIVE InnerProductChallenges(_, _, _)
InnerProductChallenges(pf, param, st) ==
    IF st.i >= Len0(pf.l) THEN st
    ELSE LET x == InnerProductChallenge(param.cs, st.p,
                                        pf.l[st.i], pf.r[st.i])
         IN  InnerProductChallenges(pf, param,
                 [i |-> st.i + 1,
                  x |-> Append0(st.x, x),
                  p |-> FoldP(st.p, pf.l[st.i], pf.r[st.i], x)])

\* s_j = product over the rounds i of x_i if the i-th most significant bit
\* of j is set, of 1/x_i otherwise
RECURSIVE InnerProductS(_, _, _, _)
InnerProductS(x, j, i, logN) ==
    IF i >= logN THEN 1
    ELSE ScalarMul(IF (j \div (2 ^ (logN - 1 - i))) % 2 = 1 THEN x[i]
                   ELSE ScalarInvert(x[i]),
                   InnerProductS(x, j, i + 1, logN))

\* InnerProductProof.Verify_Fast(param): the same challenges, one equation
\* g^(a*s) * h^(b/s) * u^(a*b) = P * prod L_i^(x_i^2) * R_i^(x_i^-2)
InnerProductVerifyFast(pf, param) ==
    IF ~InnerProductShapeOk(pf, param) THEN FALSE
    ELSE LET logN == Len0(pf.l)
             n == Len0(param.g)
             fin == InnerProductChallenges(pf, param,
                        [i |-> 0, x |-> <<>>, p |-> pf.p])
             sv == Slice0(n, LAMBDA j : InnerProductS(fin.x, j, 0, logN))
             as == vectorMulScalar(sv, pf.a)
             bs == Slice0(n, LAMBDA j : ScalarMul(pf.b, ScalarInvert(sv[j])))
             left == PointAdd(encodeVectors(as, bs, param.g, param.h),
                              ScalarMult(param.u, ScalarMul(pf.a, pf.b)))
         IN  IsPointEqual(left, fin.p)

(***************************************************************************)
(* bulletproof/bulletproof.go: provers and verifiers.  A witness is        *)
(* [values, rands], a proof [comValues, a, s, t1, t2, tauX, tHat, mu,      *)
(* innerProductProof].  The k-th draw of the entropy source s is           *)
(* RandomScalar(s, k).                                                     *)
(***************************************************************************)
ZeroU64 == SmallU64(0)

RECURSIVE ScalarSumRange(_, _, _)
ScalarSumRange(v, lo, hi) ==
    IF lo > hi THEN 0
    ELSE IF lo = hi THEN v[lo] % CurveOrder
    ELSE LET mid == (lo + hi) \div 2
         IN  ScalarAdd(ScalarSumRange(v, lo, mid), ScalarSumRange(v, mid + 1, hi))

\* sum.Add(sum, v[i]) for every i
ScalarSum(v) == ScalarSumRange(v, 0, Len0(v) - 1)

\* HPrime[i] = h[i] * yInverse^i
HPrimeOf(h, y, n) ==
    Slice0(n, LAMBDA i : ScalarMult(h[i], ScalarPow(ScalarInvert(y), i)))

\* vectorSum[j*n+i] = twoVectorN[i] * z^(j+2)
AggVectorSum(z, numValuePad, n) ==
    LET twoVectorN == powerVector(FromUint64(SmallU64(2)), n)
    IN  Slice0(n * numValuePad,
               LAMBDA k : ScalarMul(twoVectorN[k % n], ScalarPow(z, (k \div n) + 2)))

\* a delta whose last sum runs over z^(j+2) in place of z^(j+3)
AggDeltaYZ_SquareSum(y, z, numValuePad, n) ==
    LET zSquare == ScalarMul(z, z)
        innerProduct1 == ScalarSum(powerVector(y, n * numValuePad))
        innerProduct2 == ScalarSum(powerVector(FromUint64(SmallU64(2)), n))
        sum == ScalarSum(Slice0(numValuePad, LAMBDA j : ScalarPow(z, j + 2)))
    IN  ScalarSub(ScalarMul(ScalarSub(z, zSquare), innerProduct1),
                  ScalarMul(sum, innerProduct2))

\* deltaYZ = (z - z^2)*<1, y^(n*m)> - (z^3 + ... + z^(m+2))*<1, 2^n>
AggDeltaYZ(y, z, numValuePad, n) ==
    LET zSquare == ScalarMul(z, z)
        innerProduct1 == ScalarSum(powerVector(y, n * numValuePad))
        innerProduct2 == ScalarSum(powerVector(FromUint64(SmallU64(2)), n))
        sum == ScalarSum(Slice0(numValuePad, LAMBDA j : ScalarPow(z, j + 3)))
    IN  ScalarSub(ScalarMul(ScalarSub(z, zSquare), innerProduct1),
                  ScalarMul(sum, innerProduct2))

Agg_ProveOk(w, sd) ==
    Bind(Len0(w.values), LAMBDA numValue :
    Bind(pad(numValue), LAMBDA numValuePad :
    Bind(getBulletproofParams(numValuePad), LAMBDA aggParam :
    Bind(maxExp, LAMBDA n :
    Bind(n * numValuePad, LAMBDA N :
    Bind(Slice0(numValuePad,
                  LAMBDA i : IF i < numValue THEN w.values[i] ELSE ZeroU64), LAMBDA values :
    Bind(Slice0(numValuePad,
                 LAMBDA i : IF i < numValue THEN w.rands[i]
                            ELSE FromUint64(ZeroU64)), LAMBDA rands :
    Bind(Slice0(numValue,
                     LAMBDA i : AddPedersenBase(FromUint64(values[i]), rands[i])), LAMBDA comValues :
    Bind(Slice0(numValuePad, LAMBDA i : ConvertUint64ToBinary(values[i], n)), LAMBDA bits :
    Bind(Slice0(N, LAMBDA k : bits[k \div n][k % n]), LAMBDA aL :
    Bind(Slice0(N, LAMBDA k : ScalarSub(aL[k], FromUint64(SmallU64(1)))), LAMBDA aR :
    Bind(RandomScalar(sd, 0), LAMBDA alpha :
    Bind(PointAdd(encodeVectors(aL, aR, aggParam.g, aggParam.h),
                  ScalarMult(H, alpha)), LAMBDA A :
    Bind(Slice0(N, LAMBDA i : RandomScalar(sd, 1 + 2 * i)), LAMBDA sL :
    Bind(Slice0(N, LAMBDA i : RandomScalar(sd, 2 + 2 * i)), LAMBDA sR :
    Bind(RandomScalar(sd, 1 + 2 * N), LAMBDA rho :
    Bind(PointAdd(encodeVectors(sL, sR, aggParam.g, aggParam.h),
                  ScalarMult(H, rho)), LAMBDA S :
    Bind(generateChallenge(ProverTranscript("y", aggParam.cs, <<>>,
                               [A |-> A, S |-> S])), LAMBDA y :
    Bind(generateChallenge(ProverTranscript("z", aggParam.cs, <<>>,
                               [A |-> A, S |-> S, y |-> y])), LAMBDA z :
    Bind(ScalarSub(FromUint64(ZeroU64), z), LAMBDA zNeg :
    Bind(powerVector(y, N), LAMBDA yVector :
    Bind(vectorAddScalar(aL, zNeg), LAMBDA l0 :
    Bind(sL, LAMBDA l1 :
    Bind(AggVectorSum(z, numValuePad, n), LAMBDA vectorSum :
    Bind(vectorAdd(hadamardProduct(yVector, vectorAddScalar(aR, z)), vectorSum), LAMBDA r0 :
    Bind(hadamardProduct(yVector, sR), LAMBDA r1 :
    Bind(ScalarAdd(innerProduct(l1, r0), innerProduct(l0, r1)), LAMBDA t1 :
    Bind(innerProduct(l1, r1), LAMBDA t2 :
    Bind(RandomScalar(sd, 2 + 2 * N), LAMBDA tau1 :
    Bind(RandomScalar(sd, 3 + 2 * N), LAMBDA tau2 :
    Bind(AddPedersenBase(t1, tau1), LAMBDA T1 :
    Bind(AddPedersenBase(t2, tau2), LAMBDA T2 :
    Bind(generateChallenge(ProverTranscript("x", aggParam.cs, <<>>,
                               [A |-> A, S |-> S, T1 |-> T1, T2 |-> T2])), LAMBDA x :
    Bind(ScalarMul(x, x), LAMBDA xSquare :
    Bind(vectorAdd(vectorAddScalar(aL, zNeg), vectorMulScalar(sL, x)), LAMBDA lVector :
    Bind(vectorAdd(
                   hadamardProduct(yVector,
                       vectorAdd(vectorAddScalar(aR, z), vectorMulScalar(sR, x))),
                   vectorSum), LAMBDA rVector :
    Bind(innerProduct(lVector, rVector), LAMBDA tHat :
    Bind(ScalarAdd(
                ScalarAdd(ScalarMul(tau2, xSquare), ScalarMul(tau1, x)),
                ScalarSum(Slice0(numValuePad,
                    LAMBDA j : ScalarMul(ScalarPow(z, j + 2), rands[j])))), LAMBDA tauX :
    Bind(ScalarAdd(ScalarMul(rho, x), alpha), LAMBDA mu :
    Bind(PointAdd(encodeVectors(lVector, rVector, aggParam.g, aggParam.h),
                  ScalarMult(aggParam.u, tHat)), LAMBDA P :
    [comValues |-> comValues, a |-> A, s |-> S, t1 |-> T1, t2 |-> T2,
         tauX |-> tauX, tHat |-> tHat, mu |-> mu,
         innerProductProof |->
             InnerProductProve([a |-> lVector, b |-> rVector, p |-> P], aggParam)]
    ))))))))))))))))))))))))))))))))))))))))

\* BulletWitness.Agg_Prove; reading wit.rands[i] past its end panics
Agg_Prove(w, sd) ==
    IF Len0(w.values) > maxNOut THEN [res |-> "error", proof |-> NoProof]
    ELSE IF Len0(w.rands) < Len0(w.values) THEN [res |-> "panic", proof |-> NoProof]
    ELSE [res |-> "ok", proof |-> Agg_ProveOk(w, sd)]

\* the check g^tHat * h^tauX = V^(z^2..) * g^delta * T1^x * T2^(x^2) of both
\* aggregated verifiers
AggStatement1(pf) ==
    LET numValue == Len0(pf.comValues)
        numValuePad == pad(numValue)
        aggParam == getBulletproofParams(numValuePad)
        tmpcmsValue == Slice0(numValuePad,
                           LAMBDA i : IF i < numValue THEN pf.comValues[i]
                                      ELSE Identity)
        n == maxExp
        y == generateChallenge(VerifierTranscript("y", aggParam.cs, <<>>, pf, 0))
        z == generateChallenge(VerifierTranscript("z", aggParam.cs, <<>>, pf, y))
        zSquare == ScalarMul(z, z)
        x == generateChallenge(VerifierTranscript("x", aggParam.cs, <<>>, pf, y))
        xSquare == ScalarMul(x, x)
        deltaYZ == AggDeltaYZ(y, z, numValuePad, n)
        left1 == AddPedersenBase(pf.tHat, pf.tauX)
        expVector == vectorMulScalar(powerVector(z, numValuePad), zSquare)
        right1 == PointAdd(
                      PointAdd(ScalarMult(pf.t2, xSquare),
                               AddPedersen(deltaYZ, G, x, pf.t1)),
                      MultiScalarMult(expVector, tmpcmsValue))
    IN  IsPointEqual(left1, right1)

Accept == [res |-> TRUE, err |-> FALSE]
Reject == [res |-> FALSE, err |-> TRUE]

\* BulletProof.Agg_Verify
Agg_Verify(pf) ==
    IF Len0(pf.comValues) > maxNOut THEN Reject
    ELSE IF ~AggStatement1(pf) THEN Reject
    ELSE IF ~InnerProductVerify(pf.innerProductProof,
                                getBulletproofParams(pad(Len0(pf.comValues))))
         THEN Reject
    ELSE Accept

\* Agg_Verify_Fast with the inner-product check left out
Agg_Verify_Fast_NoInnerProduct(pf) ==
    IF Len0(pf.comValues) > maxNOut THEN Reject
    ELSE IF ~AggStatement1(pf) THEN Reject
    ELSE Accept

\* BulletProof.Agg_Verify_Fast
Agg_Verify_Fast(pf) ==
    IF Len0(pf.comValues) > maxNOut THEN Reject
    ELSE IF ~AggStatement1(pf) THEN Reject
    ELSE IF ~InnerProductVerifyFast(pf.innerProductProof,
                                    getBulletproofParams(pad(Len0(pf.comValues))))
         THEN Reject
    ELSE Accept

\* deltaYZ = (z - z^2)*<1, y^n> - z^3*<1, 2^n>
SingleDeltaYZ(y, z, n) ==
    LET zSquare == ScalarMul(z, z)
        zCube == ScalarMul(zSquare, z)
        innerProduct1 == ScalarSum(powerVector(y, n))
        innerProduct2 == ScalarSum(powerVector(FromUint64(SmallU64(2)), n))
    IN  ScalarSub(ScalarMul(ScalarSub(z, zSquare), innerProduct1),
                  ScalarMul(zCube, innerProduct2))

\* newParam of the single prover and verifiers: setBulletproofParams on
\* SingleBulletParam.g and HPrime
SingleNewParam(y) ==
    setBulletproofParams(SingleBulletParam.g,
                         HPrimeOf(SingleBulletParam.h, y, maxExp))

Single_ProveOk(w, sd) ==
    Bind(maxExp, LAMBDA n :
    Bind(w.values[0], LAMBDA value :
    Bind(FromUint64(value), LAMBDA valueInt :
    Bind(w.rands[0], LAMBDA rand :
    Bind(AddPedersenBase(valueInt, rand), LAMBDA comValue :
    Bind(ConvertUint64ToBinary(value, n), LAMBDA aL :
    Bind(Slice0(n, LAMBDA i : ScalarSub(aL[i], FromUint64(SmallU64(1)))), LAMBDA aR :
    Bind(RandomScalar(sd, 0), LAMBDA alpha :
    Bind(PointAdd(encodeVectors(aL, aR, SingleBulletParam.g, SingleBulletParam.h),
                  ScalarMult(H, alpha)), LAMBDA A :
    Bind(Slice0(n, LAMBDA i : RandomScalar(sd, 1 + 2 * i)), LAMBDA sL :
    Bind(Slice0(n, LAMBDA i : RandomScalar(sd, 2 + 2 * i)), LAMBDA sR :
    Bind(RandomScalar(sd, 1 + 2 * n), LAMBDA rho :
    Bind(PointAdd(encodeVectors(sL, sR, SingleBulletParam.g, SingleBulletParam.h),
                  ScalarMult(H, rho)), LAMBDA S :
    Bind(generateChallenge(ProverTranscript("y", SingleBulletParam.cs,
                               <<PointToBytes(comValue)>>,
                               [A |-> A, S |-> S])), LAMBDA y :
    Bind(generateChallenge(ProverTranscript("z", SingleBulletParam.cs,
                               <<PointToBytes(comValue)>>,
                               [A |-> A, S |-> S, y |-> y])), LAMBDA z :
    Bind(ScalarSub(FromUint64(ZeroU64), z), LAMBDA zNeg :
    Bind(ScalarMul(z, z), LAMBDA zSquare :
    Bind(powerVector(y, n), LAMBDA yVector :
    Bind(powerVector(FromUint64(SmallU64(2)), n), LAMBDA twoVector :
    Bind(vectorAddScalar(aL, zNeg), LAMBDA l0 :
    Bind(sL, LAMBDA l1 :
    Bind(vectorAdd(hadamardProduct(yVector, vectorAddScalar(aR, z)),
                    vectorMulScalar(twoVector, zSquare)), LAMBDA r0 :
    Bind(hadamardProduct(yVector, sR), LAMBDA r1 :
    Bind(ScalarAdd(innerProduct(l1, r0), innerProduct(l0, r1)), LAMBDA t1 :
    Bind(innerProduct(l1, r1), LAMBDA t2 :
    Bind(RandomScalar(sd, 2 + 2 * n), LAMBDA tau1 :
    Bind(RandomScalar(sd, 3 + 2 * n), LAMBDA tau2 :
    Bind(AddPedersenBase(t1, tau1), LAMBDA T1 :
    Bind(AddPedersenBase(t2, tau2), LAMBDA T2 :
    Bind(generateChallenge(ProverTranscript("x", SingleBulletParam.cs,
                               <<PointToBytes(comValue)>>,
                               [A |-> A, S |-> S, T1 |-> T1, T2 |-> T2])), LAMBDA x :
    Bind(ScalarMul(x, x), LAMBDA xSquare :
    Bind(vectorAdd(vectorAddScalar(aL, zNeg), vectorMulScalar(sL, x)), LAMBDA lVector :
    Bind(vectorAdd(
                   hadamardProduct(yVector,
                       vectorAdd(vectorAddScalar(aR, z), vectorMulScalar(sR, x))),
                   vectorMulScalar(twoVector, zSquare)), LAMBDA rVector :
    Bind(innerProduct(lVector, rVector), LAMBDA tHat :
    Bind(ScalarAdd(
                ScalarAdd(ScalarMul(tau2, xSquare), ScalarMul(tau1, x)),
                ScalarMul(zSquare, rand)), LAMBDA tauX :
    Bind(ScalarAdd(alpha, ScalarMul(rho, x)), LAMBDA mu :
    Bind(SingleNewParam(y), LAMBDA newParam :
    Bind(PointAdd(encodeVectors(lVector, rVector, newParam.g, newParam.h),
                  ScalarMult(SingleBulletParam.u, tHat)), LAMBDA P :
    [comValues |-> Slice0(1, LAMBDA i : comValue),
         a |-> A, s |-> S, t1 |-> T1, t2 |-> T2,
         tauX |-> tauX, tHat |-> tHat, mu |-> mu,
         innerProductProof |->
             InnerProductProve([a |-> lVector, b |-> rVector, p |-> P], newParam)]
    ))))))))))))))))))))))))))))))))))))))

\* BulletWitness.Single_Prove
Single_Prove(w, sd) ==
    IF Len0(w.values) # Len0(w.rands) \/ Len0(w.values) # 1
    THEN [res |-> "error", proof |-> NoProof]
    ELSE [res |-> "ok", proof |-> Single_ProveOk(w, sd)]

\* a challenge y that leaves the value commitment out of the transcript
SingleChallengeY_NoValue(pf) ==
    generateChallenge(<<SingleBulletParam.cs, PointToBytes(pf.a), PointToBytes(pf.s)>>)

\* the challenge y of the single verifiers, over cs, V, A and S
SingleChallengeY(pf) ==
    generateChallenge(VerifierTranscript("y", SingleBulletParam.cs,
                                         <<PointToBytes(pf.comValues[0])>>, pf, 0))

\* the check g^tHat * h^tauX = V^(z^2) * g^delta * T1^x * T2^(x^2) of both
\* single verifiers
SingleStatement1(pf) ==
    LET n == maxExp
        comValue == pf.comValues[0]
        y == SingleChallengeY(pf)
        z == generateChallenge(VerifierTranscript("z", SingleBulletParam.cs,
                                   <<PointToBytes(comValue)>>, pf, y))
        zSquare == ScalarMul(z, z)
        x == generateChallenge(VerifierTranscript("x", SingleBulletParam.cs,
                                   <<PointToBytes(comValue)>>, pf, y))
        xSquare == ScalarMul(x, x)
        deltaYZ == SingleDeltaYZ(y, z, n)
        left1 == AddPedersenBase(pf.tHat, pf.tauX)
        right1 == PointAdd(
                      PointAdd(ScalarMult(comValue, zSquare), ScalarMultBase(deltaYZ)),
                      AddPedersen(x, pf.t1, xSquare, pf.t2))
    IN  IsPointEqual(left1, right1)

\* BulletProof.Single_Verify
Single_Verify(pf) ==
    IF Len0(pf.comValues) # 1 THEN Reject
    ELSE IF ~SingleStatement1(pf) THEN Reject
    ELSE IF SingleNewParam(SingleChallengeY(pf)).err THEN Reject
    ELSE IF ~InnerProductVerify(pf.innerProductProof,
                                SingleNewParam(SingleChallengeY(pf)))
         THEN Reject
    ELSE Accept

\* BulletProof.Single_Verify_Fast
Single_Verify_Fast(pf) ==
    IF Len0(pf.comValues) # 1 THEN Reject
    ELSE IF ~SingleStatement1(pf) THEN Reject
    ELSE IF SingleNewParam(SingleChallengeY(pf)).err THEN Reject
    ELSE IF ~InnerProductVerifyFast(pf.innerProductProof,
                                    SingleNewParam(SingleChallengeY(pf)))
         THEN Reject
    ELSE Accept

(***************************************************************************)
(* Serialization.  A byte string is a sequence of bytes; a key takes       *)
(* Ed25519KeySize of them.                                                 *)
(***************************************************************************)
KeyBytes(key) ==
    [i \in 1..Ed25519KeySize |-> IF i = 1 THEN key[1] ELSE IF i = 2 THEN key[2] ELSE 0]

\* the 32-byte array a slice b is copied into, zero filled
KeyArray(b) ==
    [i \in 1..Ed25519KeySize |-> IF i <= Len(b) THEN b[i] ELSE 0]

HighBytesZero(b) == \A i \in 3..Ed25519KeySize : b[i] = 0

PointBytes(P) == KeyBytes(P)
ScalarBytes(a) == KeyBytes(<<a % 256, a \div 256>>)

\* Point.FromBytes: the point, or an error for bytes that encode none
PointFromBytes(b) ==
    LET arr == KeyArray(b)
    IN  IF Len(b) = Ed25519KeySize /\ HighBytesZero(arr)
           /\ PointValid(<<arr[1], arr[2]>>)
        THEN [err |-> FALSE, v |-> <<arr[1], arr[2]>>]
        ELSE [err |-> TRUE]

\* Scalar.FromBytes: copy into the key, then ScValid
ScalarFromBytes(b) ==
    LET arr == KeyArray(b)
    IN  IF HighBytesZero(arr) /\ ScalarValid(arr[1] + 256 * arr[2])
        THEN [err |-> FALSE, v |-> arr[1] + 256 * arr[2]]
        ELSE [err |-> TRUE]

RECURSIVE PointsFlatRange(_, _, _)
PointsFlatRange(points, lo, hi) ==
    IF lo > hi THEN <<>>
    ELSE IF lo = hi THEN PointBytes(points[lo])
    ELSE LET mid == (lo + hi) \div 2
         IN  PointsFlatRange(points, lo, mid) \o PointsFlatRange(points, mid + 1, hi)

PointsFlat(points) == PointsFlatRange(points, 0, Len0(points) - 1)

\* InnerProductProof.Bytes: log2(n) in one byte, every L, every R, a, b, P
InnerProductBytes(ip) ==
    <<Len0(ip.l) % 256>> \o PointsFlat(ip.l) \o PointsFlat(ip.r)
        \o ScalarBytes(ip.a) \o ScalarBytes(ip.b) \o PointBytes(ip.p)

NilInnerProduct == [none |-> TRUE]

KeyAt(b, k) == SubSeq(b, 1 + k * Ed25519KeySize, (k + 1) * Ed25519KeySize)

\* InnerProductProof.SetBytes: the proof, or an error for bytes that are
\* too short or hold an invalid point or scalar
InnerProductSetBytes(b) ==
    IF Len(b) = 0 THEN [err |-> TRUE]
    ELSE LET logN == b[1]
             body == Tail(b)
             keys == 2 * logN + 3
         IN  IF Len(body) < keys * Ed25519KeySize THEN [err |-> TRUE]
             ELSE LET ls == Slice0(logN, LAMBDA i : PointFromBytes(KeyAt(body, i)))
                      rs == Slice0(logN, LAMBDA i : PointFromBytes(KeyAt(body, logN + i)))
                      a == ScalarFromBytes(KeyAt(body, 2 * logN))
                      bb == ScalarFromBytes(KeyAt(body, 2 * logN + 1))
                      P == PointFromBytes(KeyAt(body, 2 * logN + 2))
                  IN  IF \/ \E i \in 0..(logN - 1) : ls[i].err \/ rs[i].err
                         \/ a.err \/ bb.err \/ P.err
                      THEN [err |-> TRUE]
                      ELSE [err |-> FALSE,
                            v |-> [l |-> Slice0(logN, LAMBDA i : ls[i].v),
                                   r |-> Slice0(logN, LAMBDA i : rs[i].v),
                                   a |-> a.v, b |-> bb.v, p |-> P.v]]

\* BulletProof.IsNil
IsNil(pf) == pf = NoProof

\* an encoding that writes tHat before tauX
BulletBytes_SwapScalars(pf) ==
    IF IsNil(pf) THEN <<>>
    ELSE <<Len0(pf.comValues) % 256>> \o PointsFlat(pf.comValues)
             \o PointBytes(pf.a) \o PointBytes(pf.s)
             \o PointBytes(pf.t1) \o PointBytes(pf.t2)
             \o ScalarBytes(pf.tHat) \o ScalarBytes(pf.tauX) \o ScalarBytes(pf.mu)
             \o InnerProductBytes(pf.innerProductProof)

\* BulletProof.Bytes
BulletBytes(pf) ==
    IF IsNil(pf) THEN <<>>
    ELSE <<Len0(pf.comValues) % 256>> \o PointsFlat(pf.comValues)
             \o PointBytes(pf.a) \o PointBytes(pf.s)
             \o PointBytes(pf.t1) \o PointBytes(pf.t2)
             \o ScalarBytes(pf.tauX) \o ScalarBytes(pf.tHat) \o ScalarBytes(pf.mu)
             \o InnerProductBytes(pf.innerProductProof)

\* BulletProof.SetBytes on a new proof: [res, proof] with res "ok" (nil
\* error), "error", or "panic" where a slice runs past the end of bytes; the
\* error of innerProductProof.SetBytes is dropped
BulletSetBytes(b) ==
    IF Len(b) = 0 THEN [res |-> "ok", proof |-> NoProof]
    ELSE LET lenValues == b[1]
             body == Tail(b)
         IN  IF Len(body) < (lenValues + 7) * Ed25519KeySize
             THEN IF \E k \in 0..(Len(body) \div Ed25519KeySize - 1) :
                        IF k < lenValues + 4 THEN PointFromBytes(KeyAt(body, k)).err
                        ELSE ScalarFromBytes(KeyAt(body, k)).err
                  THEN [res |-> "error", proof |-> NoProof]
                  ELSE [res |-> "panic", proof |-> NoProof]
             ELSE LET V == Slice0(lenValues, LAMBDA i : PointFromBytes(KeyAt(body, i)))
                      pt == Slice0(4, LAMBDA i : PointFromBytes(KeyAt(body, lenValues + i)))
                      sc == Slice0(3, LAMBDA i : ScalarFromBytes(KeyAt(body, lenValues + 4 + i)))
                      ip == InnerProductSetBytes(
                                SubSeq(body, 1 + (lenValues + 7) * Ed25519KeySize, Len(body)))
                  IN  IF \/ \E i \in 0..(lenValues - 1) : V[i].err
                         \/ \E i \in 0..3 : pt[i].err
                         \/ \E i \in 0..2 : sc[i].err
                      THEN [res |-> "error", proof |-> NoProof]
                      ELSE [res |-> "ok",
                            proof |->
                              [comValues |-> Slice0(lenValues, LAMBDA i : V[i].v),
                               a |-> pt[0].v, s |-> pt[1].v,
                               t1 |-> pt[2].v, t2 |-> pt[3].v,
                               tauX |-> sc[0].v, tHat |-> sc[1].v, mu |-> sc[2].v,
                               innerProductProof |->
                                   IF ip.err THEN NilInnerProduct ELSE ip.v]]

(***************************************************************************)
(* The linking machine: two independent prover runs, to compare the key    *)
(* images they emit.                                                       *)
(***************************************************************************)
LinkMessages == {<<3, 1>>, <<5, 1>>}
LinkIndices == {0, 2, RingSize - 1}

\* the first run: every key list and dsCols, at index 2
LinkFirst ==
    { MkWitness(sk, 2, dsCols, 0, <<3, 1>>) :
        sk \in KeyLists(2), dsCols \in 1..2 }

\* the second run: every key list, index, ring and message
LinkSecond ==
    { MkWitness(sk, index, 2, ring, msg) :
        sk \in KeyLists(2), index \in LinkIndices, ring \in 0..1,
        msg \in LinkMessages }

LinkInit ==
    /\ wit \in LinkFirst
    /\ seed = 0
    /\ proof = NoProof
    /\ proveRes = "none"
    /\ sent = NoProof
    /\ tamper = "none"
    /\ verdicts = <<>>
    /\ \E w \in LinkSecond : \E s \in 0..MaxSeed :
           other = [wit |-> w, seed |-> s, res |-> "none", proof |-> NoProof]
    /\ BulletIdle
    /\ ParamsIdle
    /\ PureIdle

ProveOther ==
    /\ other.res = "none"
    /\ LET out == Mlsag_Prove(other.wit, other.seed)
       IN  other' = [other EXCEPT !.res = out.res, !.proof = out.proof]
    /\ UNCHANGED <<wit, seed, proof, proveRes, sent, tamper, verdicts, bulletVars, paramVars, pureVars>>

LinkNext == ProveCall \/ ProveOther

SpecLink == LinkInit /\ [][LinkNext]_vars

(***************************************************************************)
(* The range-proof machine: prove, then either replace one field of the    *)
(* proof and verify, or verify, serialize, parse and verify the parsed     *)
(* proof.                                                                  *)
(***************************************************************************)
MaxValues == 3     \* witnesses hold 0..MaxValues values

\* 0, 1, 1001, 2^63 and 2^64 - 1
Uint64s ==
    <<ZeroU64, SmallU64(1), SmallU64(1001),
      U64(0, 0, 0, 0, 0, 0, 0, 128),
      U64(255, 255, 255, 255, 255, 255, 255, 255)>>

\* the witnesses of m values: the values are Uint64s from the k-th on, the
\* blinding scalars follow b
BulletWitnessOf(m, k, b) ==
    [values |-> Slice0(m, LAMBDA i : Uint64s[1 + ((k + i) % Len(Uint64s))]),
     rands |-> Slice0(m, LAMBDA i : (b + 3 * i) % CurveOrder)]

\* one value too many for Agg_Prove, and fewer blinding scalars than values
TooManyValues == BulletWitnessOf(maxNOut + 1, 0, 0)
TooFewRands ==
    [values |-> BulletWitnessOf(2, 1, 5).values,
     rands |-> BulletWitnessOf(1, 1, 5).rands]

\* seven values, padded to eight, and the most values Agg_Prove takes
LargeWitnesses == {BulletWitnessOf(7, 2, 5), BulletWitnessOf(maxNOut, 0, 5)}

\* more blinding scalars than values
TooManyRands ==
    [values |-> BulletWitnessOf(1, 2, 5).values,
     rands |-> BulletWitnessOf(2, 2, 5).rands]

BulletWitnesses ==
    { BulletWitnessOf(m, k, 5 * (k % 2)) :
        m \in 0..MaxValues, k \in 0..(Len(Uint64s) - 1) }
      \cup {TooManyValues, TooFewRands, TooManyRands} \cup LargeWitnesses

\* BulletWitness.Set: len(values) values and as many rands are copied;
\* rands[i] past the end of a shorter rands is a run-time panic
BulletWitnessSet(values, rands) ==
    IF Len0(rands) < Len0(values) THEN [res |-> "panic"]
    ELSE [res |-> "ok",
          wit |-> [values |-> values,
                   rands |-> Slice0(Len0(values), LAMBDA i : rands[i])]]

BulletInit ==
    /\ wit \in BulletWitnesses
    /\ seed \in 0..MaxSeed
    /\ wit \in LargeWitnesses => seed = 0
    /\ proof = NoProof
    /\ proveRes = "none"
    /\ tamper = "none"
    /\ sent = NoProof
    /\ verdicts = <<>>
    /\ other = NoProof
    /\ BulletIdle
    /\ ParamsIdle
    /\ PureIdle

\* wit.Set(values, rands) on the lists the caller holds
WitnessSetCall ==
    /\ proveRes = "none" /\ prover = "none"
    /\ LET out == BulletWitnessSet(wit.values, wit.rands)
       IN  IF out.res = "panic"
           THEN proveRes' = "panic" /\ wit' = wit
           ELSE proveRes' = proveRes /\ wit' = out.wit
    /\ prover' = "set"
    /\ UNCHANGED <<seed, proof, tamper, encoded, parsed, results, mlsagVars, paramVars, pureVars>>

AggProveCall ==
    /\ proveRes = "none"
    /\ LET out == Agg_Prove(wit, seed)
       IN  proveRes' = out.res /\ proof' = out.proof
    /\ prover' = "agg"
    /\ UNCHANGED <<wit, seed, tamper, encoded, parsed, results, mlsagVars, paramVars, pureVars>>

SingleProveCall ==
    /\ proveRes = "none"
    /\ LET out == Single_Prove(wit, seed)
       IN  proveRes' = out.res /\ proof' = out.proof
    /\ prover' = "single"
    /\ UNCHANGED <<wit, seed, tamper, encoded, parsed, results, mlsagVars, paramVars, pureVars>>

TamperPoints == {G, H}

\* pf with one transmitted field replaced by a different valid value
TamperedProofs(pf) ==
    LET ip == pf.innerProductProof
        OtherPoint(P, D) == PointAdd(P, D)
        OtherScalar(a, d) == ScalarAdd(a, d)
    IN  { [field |-> "comValues", proof |-> [pf EXCEPT !.comValues[k] = OtherPoint(@, D)]] :
              k \in DOMAIN pf.comValues, D \in TamperPoints }
        \cup { [field |-> "a", proof |-> [pf EXCEPT !.a = OtherPoint(@, D)]] : D \in TamperPoints }
        \cup { [field |-> "s", proof |-> [pf EXCEPT !.s = OtherPoint(@, D)]] : D \in TamperPoints }
        \cup { [field |-> "t1", proof |-> [pf EXCEPT !.t1 = OtherPoint(@, D)]] : D \in TamperPoints }
        \cup { [field |-> "t2", proof |-> [pf EXCEPT !.t2 = OtherPoint(@, D)]] : D \in TamperPoints }
        \cup { [field |-> "tauX", proof |-> [pf EXCEPT !.tauX = OtherScalar(@, d)]] : d \in TamperDeltas }
        \cup { [field |-> "tHat", proof |-> [pf EXCEPT !.tHat = OtherScalar(@, d)]] : d \in TamperDeltas }
        \cup { [field |-> "mu", proof |-> [pf EXCEPT !.mu = OtherScalar(@, d)]] : d \in TamperDeltas }
        \cup { [field |-> "innerProductProof.l",
                proof |-> [pf EXCEPT !.innerProductProof.l[i] = OtherPoint(@, D)]] :
              i \in DOMAIN ip.l, D \in TamperPoints }
        \cup { [field |-> "innerProductProof.r",
                proof |-> [pf EXCEPT !.innerProductProof.r[i] = OtherPoint(@, D)]] :
              i \in DOMAIN ip.r, D \in TamperPoints }
        \cup { [field |-> "innerProductProof.a",
                proof |-> [pf EXCEPT !.innerProductProof.a = OtherScalar(@, d)]] : d \in TamperDeltas }
        \cup { [field |-> "innerProductProof.b",
                proof |-> [pf EXCEPT !.innerProductProof.b = OtherScalar(@, d)]] : d \in TamperDeltas }
        \cup { [field |-> "innerProductProof.p",
                proof |-> [pf EXCEPT !.innerProductProof.p = OtherPoint(@, D)]] : D \in TamperPoints }

TamperProof ==
    /\ proveRes = "ok" /\ prover # "none"
    /\ Len0(proof.comValues) <= MaxValues
    /\ tamper = "none" /\ results = <<>> /\ encoded = <<>>
    /\ \E t \in TamperedProofs(proof) :
           proof' = t.proof /\ tamper' = t.field
    /\ UNCHANGED <<wit, seed, proveRes, bulletVars, mlsagVars, paramVars, pureVars>>

\* an inner-product proof made by InnerProductWitness.Prove for the vectors
\* a = (k, k, ...) and b = (k + 1, k + 1, ...), which no range statement fixes
UnrelatedInnerProduct(param, k) ==
    LET a == Slice0(Len0(param.g), LAMBDA i : k)
        b == Slice0(Len0(param.g), LAMBDA i : k + 1)
        P == PointAdd(encodeVectors(a, b, param.g, param.h),
                      ScalarMult(param.u, innerProduct(a, b)))
    IN  InnerProductProve([a |-> a, b |-> b, p |-> P], param)

\* the parameters the verifiers of pf hand to the inner-product verifier
VerifierParam(pf, by) ==
    IF by = "agg" THEN getBulletproofParams(pad(Len0(pf.comValues)))
    ELSE SingleNewParam(SingleChallengeY(pf))

\* the inner-product part of an honest proof replaced by one made for
\* unrelated vectors
ReplaceInnerProduct ==
    /\ proveRes = "ok" /\ prover \in {"agg", "single"}
    /\ Len0(proof.comValues) \in 1..MaxValues
    /\ tamper = "none" /\ results = <<>> /\ encoded = <<>>
    /\ \E k \in 1..2 :
           proof' = [proof EXCEPT !.innerProductProof =
                        UnrelatedInnerProduct(VerifierParam(proof, prover), k)]
    /\ tamper' = "innerProductProof.unrelated"
    /\ UNCHANGED <<wit, seed, proveRes, bulletVars, mlsagVars, paramVars, pureVars>>

BytesCall ==
    /\ proveRes = "ok" /\ prover # "none"
    /\ tamper = "none" /\ encoded = <<>>
    /\ encoded' = BulletBytes(proof)
    /\ UNCHANGED <<wit, seed, proof, proveRes, tamper, prover, parsed, results, mlsagVars, paramVars, pureVars>>

\* the index in a serialized proof of the first byte of key k, and of the
\* first byte of key j of the inner-product part that follows lenValues + 7
\* keys and its own length byte
KeyStart(k) == 2 + k * Ed25519KeySize
InnerKeyStart(lenValues, j) == KeyStart(lenValues + 7) + 1 + j * Ed25519KeySize

\* b cut short or with one key made undecodable: b is empty, ends inside or
\* right after the fixed part, ends inside the inner-product part, or holds
\* a scalar or a point coordinate of 255, which no key of the model has
CorruptedBytes(b) ==
    LET lenValues == b[1]
        fixed == 1 + (lenValues + 7) * Ed25519KeySize
        logN == b[fixed + 1]
        Cut(kind, ks) == { [kind |-> kind, bytes |-> SubSeq(b, 1, k)] : k \in ks }
        Bad(kind, is) == { [kind |-> kind, bytes |-> [b EXCEPT ![i] = 255]] : i \in is }
    IN  {[kind |-> "bytes.empty", bytes |-> <<>>]}
        \cup Cut("bytes.truncated", {1, Ed25519KeySize, fixed - 1})
        \cup Cut("bytes.truncated.inner", {fixed, fixed + 1, Len(b) - 1})
        \cup Bad("bytes.scalar", {KeyStart(lenValues + 4 + i) : i \in 0..2})
        \cup Bad("bytes.point", {KeyStart(k) : k \in {0, lenValues, lenValues + 3}})
        \cup Bad("bytes.scalar.inner",
                 {InnerKeyStart(lenValues, 2 * logN + i) : i \in 0..1})
        \cup Bad("bytes.point.inner",
                 {InnerKeyStart(lenValues, j) : j \in {0, 2 * logN - 1, 2 * logN + 2}})

ByteDamages ==
    {"bytes.empty", "bytes.truncated", "bytes.truncated.inner",
     "bytes.scalar", "bytes.point", "bytes.scalar.inner", "bytes.point.inner"}

\* the bytes are damaged on their way to the parser
CorruptBytes ==
    /\ encoded # <<>> /\ parsed = NoParse
    /\ tamper = "none" /\ results = <<>>
    /\ encoded[1] <= MaxValues
    /\ \E c \in CorruptedBytes(encoded) :
           encoded' = c.bytes /\ tamper' = c.kind
    /\ UNCHANGED <<wit, seed, proof, proveRes, prover, parsed, results, mlsagVars, paramVars, pureVars>>

SetBytesCall ==
    /\ (encoded # <<>> \/ tamper = "bytes.empty") /\ parsed = NoParse
    /\ parsed' = BulletSetBytes(encoded)
    /\ UNCHANGED <<wit, seed, proof, proveRes, tamper, prover, encoded, results, mlsagVars, paramVars, pureVars>>

\* the proofs a verifier may be called on: the prover's and the parsed one
Targets ==
    IF tamper \in ByteDamages THEN {}
    ELSE (IF proveRes = "ok" THEN {[name |-> "", proof |-> proof]} ELSE {})
             \cup (IF parsed.res = "ok"
                   THEN {[name |-> "parsed.", proof |-> parsed.proof]} ELSE {})

Record(call, v) ==
    /\ call \notin DOMAIN results
    /\ results' = results @@ (call :> v)
    /\ UNCHANGED <<wit, seed, proof, proveRes, tamper, prover, encoded, parsed, mlsagVars, paramVars, pureVars>>

AggVerifyCall ==
    /\ prover = "agg"
    /\ \E t \in Targets : Record(t.name \o "slow", Agg_Verify(t.proof))

AggVerifyFastCall ==
    /\ prover = "agg"
    /\ \E t \in Targets : Record(t.name \o "fast", Agg_Verify_Fast(t.proof))

SingleVerifyCall ==
    /\ prover = "single"
    /\ \E t \in Targets : Record(t.name \o "slow", Single_Verify(t.proof))

SingleVerifyFastCall ==
    /\ prover = "single"
    /\ \E t \in Targets : Record(t.name \o "fast", Single_Verify_Fast(t.proof))

BulletNext ==
    \/ WitnessSetCall
    \/ AggProveCall \/ SingleProveCall \/ TamperProof \/ ReplaceInnerProduct
    \/ BytesCall \/ CorruptBytes \/ SetBytesCall
    \/ AggVerifyCall \/ AggVerifyFastCall
    \/ SingleVerifyCall \/ SingleVerifyFastCall

SpecBullet == BulletInit /\ [][BulletNext]_vars

(***************************************************************************)
(* The shared generator tables under concurrent callers.  A call is cut   *)
(* into the writes it makes through pointers, each an atomic step, so     *)
(* that the writes of several threads interleave in every order.          *)
(***************************************************************************)

\* a slot of a package-level table, or an object the calling thread made
SharedRef(table, field) == [own |-> FALSE, table |-> table, field |-> field]
OwnRef(t, name) == [own |-> TRUE, thread |-> t, name |-> name]

\* what a slot of a table holds once the package is initialized
InitialEntry(ref) ==
    LET table == IF ref.table = "BulletParam" THEN BulletParam
                 ELSE SingleBulletParam
    IN  CASE ref.field = "g" -> table.g
          [] ref.field = "h" -> table.h
          [] ref.field = "u" -> table.u
          [] OTHER -> table.cs

EntryNow(ref) ==
    IF ref \in DOMAIN tableWrites THEN tableWrites[ref] ELSE InitialEntry(ref)

\* getBulletproofParams: u and cs are BulletParam's own pointer and slice,
\* g and h are arrays made by the call and filled with new points
getBulletproofParamsRefs(t) ==
    [g |-> OwnRef(t, "newParam.g"), h |-> OwnRef(t, "newParam.h"),
     u |-> SharedRef("BulletParam", "u"),
     cs |-> SharedRef("BulletParam", "cs")]

\* setBulletproofParams: u is BulletParam's own pointer, g, h and cs are
\* made by the call
setBulletproofParamsRefs(t) ==
    [g |-> OwnRef(t, "newParam.g"), h |-> OwnRef(t, "newParam.h"),
     u |-> SharedRef("BulletParam", "u"),
     cs |-> OwnRef(t, "newParam.cs")]

Calls ==
    {"Single_Prove", "Single_Verify", "Single_Verify_Fast",
     "Agg_Prove", "Agg_Verify", "Agg_Verify_Fast",
     "getBulletproofParams", "setBulletproofParams"}

\* the view of the tables a call works with
ParamRefs(op, t) ==
    IF op \in {"Single_Prove", "Single_Verify", "Single_Verify_Fast",
               "setBulletproofParams"}
    THEN setBulletproofParamsRefs(t)
    ELSE getBulletproofParamsRefs(t)

\* the writes through a pointer or into an array that a call makes, in
\* order, as if the provers added u * tHat into the view's u
InPlaceWrites_IntoU(op) ==
    <<"newParam.g", "newParam.h">> \o
    (IF op \in {"Single_Prove", "Agg_Prove"} THEN <<"newParam.u">> ELSE <<>>)

\* the writes through a pointer or into an array that a call makes, in
\* order: the view's g and h are filled, and the provers add u * tHat
\* into the point p of the inner-product witness they made
InPlaceWrites(op) ==
    <<"newParam.g", "newParam.h">> \o
    (IF op \in {"Single_Prove", "Agg_Prove"} THEN <<"innerProductWit.p">>
     ELSE <<>>)

\* where a written name lives
WriteTarget(op, t, name) ==
    CASE name = "newParam.g" -> ParamRefs(op, t).g
      [] name = "newParam.h" -> ParamRefs(op, t).h
      [] name = "newParam.u" -> ParamRefs(op, t).u
      [] name = "newParam.cs" -> ParamRefs(op, t).cs
      [] OTHER -> OwnRef(t, name)

\* what a write leaves in a slot of a table: g and h get points, a point
\* gets u * tHat added (tHat is the thread's own scalar)
WrittenEntry(ref, t) ==
    CASE ref.field \in {"g", "h"} ->
            [i \in DOMAIN EntryNow(ref) |->
                IF i = 0 THEN ScalarMult(EntryNow(ref)[i], t + 1)
                ELSE EntryNow(ref)[i]]
      [] ref.field = "u" ->
            PointAdd(EntryNow(ref),
                     ScalarMult(EntryNow(SharedRef("BulletParam", "u")), t))
      [] OTHER -> ScalarToBytes(t)

ParamsInit ==
    /\ wit = BulletWitnessOf(1, 0, 5)
    /\ seed = 0
    /\ proof = NoProof
    /\ proveRes = "none"
    /\ tamper = "none"
    /\ sent = NoProof
    /\ verdicts = <<>>
    /\ other = NoProof
    /\ BulletIdle
    /\ ParamsIdle
    /\ PureIdle

restVars ==
    <<wit, seed, proof, proveRes, tamper, mlsagVars, bulletVars, pureVars>>

\* a thread enters one of the package's functions
CallStart(t) ==
    /\ threads[t].pc = 0
    /\ threads[t].calls < MaxCalls
    /\ \E op \in Calls :
          threads' = [threads EXCEPT ![t] =
                         [op |-> op, pc |-> 1, calls |-> @.calls + 1]]
    /\ UNCHANGED <<tableWrites, restVars>>

\* the next write of the call, atomic
CallWrite(t) ==
    /\ threads[t].pc \in 1..Len(InPlaceWrites(threads[t].op))
    /\ LET ref == WriteTarget(threads[t].op, t,
                              InPlaceWrites(threads[t].op)[threads[t].pc])
       IN  tableWrites' =
               IF ref.own THEN tableWrites
               ELSE (ref :> WrittenEntry(ref, t)) @@ tableWrites
    /\ threads' = [threads EXCEPT ![t].pc = @ + 1]
    /\ UNCHANGED restVars

\* the rest of the call reads only; the thread returns
CallReturn(t) ==
    /\ threads[t].pc = Len(InPlaceWrites(threads[t].op)) + 1
    /\ threads' = [threads EXCEPT ![t].pc = 0]
    /\ UNCHANGED <<tableWrites, restVars>>

ThreadCall == \E t \in Threads : CallStart(t)
ThreadWrite == \E t \in Threads : CallWrite(t)
ThreadReturn == \E t \in Threads : CallReturn(t)

ParamsNext == ThreadCall \/ ThreadWrite \/ ThreadReturn

SpecParams == ParamsInit /\ [][ParamsNext]_vars

(***************************************************************************)
(* Calls of the functions without side effects: pad, Scalar.Exp and        *)
(* MultiScalarMultKey, each on arguments drawn from a bounded set.         *)
(***************************************************************************)
MaxTerms == 2       \* points and scalars given to MultiScalarMultKey
MaxExponent == 5    \* exponents given to Scalar.Exp

\* the numbers of values the provers and verifiers pad, and those of TestPad
PadInputs == (0..maxNOut) \cup {1000}

\* scalars whose radix-16 digits are positive, negative, zero and carry
ScalarInputs == {0, 1, 7, 8, 9, CurveOrder - 1}
PointInputs == {G, H, <<3, 5>>}

\* bytes whose halves are 0, 7, 8 and 15, and top bytes with the high bit
\* clear and set; a key repeats two bytes below its top byte
ByteInputs == {0, 1, 127, 128, 135, 136, 247, 248, 255}
TopInputs == {0, 1, 119, 127, 128, 255}
KeyInputs ==
    {[i \in 0..31 |-> IF i = 31 THEN top ELSE IF i % 2 = 0 THEN a ELSE b] :
        a \in ByteInputs, b \in ByteInputs, top \in TopInputs}

\* the uint64 given to FromUint64: 0, 1, 1001, 2^63, 2^64 - 1, and values
\* with one or with eight different bytes
Uint64Inputs ==
    {Uint64s[k] : k \in 1..Len(Uint64s)}
        \cup {U64(0, 0, 0, b, 0, 0, 0, 0) : b \in 1..3}
        \cup {U64(1, 2, 3, 4, 5, 6, 7, 8)}

\* the witness of TestMlsag: publicKey[index][j] = privateKey[j] * G
FullWitness(sk, index, msg) ==
    [privateKey |-> sk,
     index |-> index,
     publicKey |-> [i \in 0..(RingSize - 1) |->
                       [j \in DOMAIN sk |->
                           IF i = index THEN ScalarMultBase(sk[j])
                           ELSE Decoy(0, i, j)]],
     message |-> msg]

\* the signer's rows given to the prover without dsCols: every row of the
\* ring
FullIndices == 0..(RingSize - 1)

PureInit ==
    /\ wit = BulletWitnessOf(1, 0, 5)
    /\ seed = 0
    /\ proof = NoProof
    /\ proveRes = "none"
    /\ tamper = "none"
    /\ sent = NoProof
    /\ verdicts = <<>>
    /\ other = NoProof
    /\ BulletIdle
    /\ ParamsIdle
    /\ pureRet = [done |-> FALSE]
    /\ \/ \E num \in PadInputs : pureCall = [fn |-> "pad", num |-> num]
       \/ \E a \in 0..(CurveOrder - 1), v \in 0..MaxExponent :
             pureCall = [fn |-> "Exp", a |-> a, v |-> v]
       \/ \E y \in 1..(CurveOrder - 1), cut \in 0..1 :
             pureCall = [fn |-> "setBulletproofParams", y |-> y, cut |-> cut]
       \/ \E k \in KeyInputs :
             pureCall = [fn |-> "signedRadix16", k |-> k]
       \/ \E x \in Uint64Inputs :
             pureCall = [fn |-> "ToUint64", x |-> x]
       \/ \E m \in {1, nOutPreComputeParam} :
             pureCall = [fn |-> "newBulletproofParams", m |-> m]
       \/ \E sk \in KeyLists(2), index \in FullIndices, s \in 0..MaxSeed :
             pureCall = [fn |-> "Mlsag_Prove", sk |-> sk, index |-> index,
                         seed |-> s]
       \/ \E n \in 0..MaxTerms :
             \E points \in [0..(n - 1) -> PointInputs],
                scalars \in [0..(n - 1) -> ScalarInputs] :
                 pureCall = [fn |-> "MultiScalarMultKey",
                             points |-> points, scalars |-> scalars]

notPureVars ==
    <<wit, seed, proof, proveRes, tamper, mlsagVars, bulletVars, paramVars>>

PadCall ==
    /\ pureCall.fn = "pad"
    /\ ~pureRet.done
    /\ pureRet' = [done |-> TRUE, res |-> "ok", value |-> pad(pureCall.num)]
    /\ UNCHANGED <<pureCall, notPureVars>>

ExpCall ==
    /\ pureCall.fn = "Exp"
    /\ ~pureRet.done
    /\ pureRet' = [done |-> TRUE, res |-> "ok",
                   value |-> ScalarExp(pureCall.a, pureCall.v)]
    /\ UNCHANGED <<pureCall, notPureVars>>

MultiScalarMultKeyCall ==
    /\ pureCall.fn = "MultiScalarMultKey"
    /\ ~pureRet.done
    /\ LET out == MultiScalarMultKey(pureCall.points, pureCall.scalars)
       IN  pureRet' = IF out.res # "ok" THEN [done |-> TRUE] @@ out
                      ELSE [done |-> TRUE] @@ out @@
                           [trace |-> MultiScalarMultKeyTrace(pureCall.points,
                                                              pureCall.scalars)]
    /\ UNCHANGED <<pureCall, notPureVars>>

\* the arguments of setBulletproofParams in the single prover and
\* verifiers: SingleBulletParam.g and HPrime for the challenge y; with
\* cut = 1, an h one entry shorter
SetParamsG == SingleBulletParam.g
SetParamsH(y, cut) == HPrimeOf(SingleBulletParam.h, y, maxExp - cut)

SetParamsCall ==
    /\ pureCall.fn = "setBulletproofParams"
    /\ ~pureRet.done
    /\ LET out == setBulletproofParams(SetParamsG,
                                       SetParamsH(pureCall.y, pureCall.cut))
       IN  pureRet' = IF out.err THEN [done |-> TRUE, res |-> "error"]
                      ELSE [done |-> TRUE, res |-> "ok", value |-> out]
    /\ UNCHANGED <<pureCall, notPureVars>>

\* TestMlsag: Mlsag_Prove on the witness built for the index, then
\* Mlsag_Verify on the proof returned; a panic ends the run
FullMlsagCall ==
    /\ pureCall.fn = "Mlsag_Prove"
    /\ ~pureRet.done
    /\ LET w == FullWitness(pureCall.sk, pureCall.index, <<3, 1>>)
           out == Full_Mlsag_Prove(w, pureCall.seed)
       IN  pureRet' = IF out.res # "ok" THEN [done |-> TRUE, res |-> out.res]
                      ELSE [done |-> TRUE, res |-> "ok",
                            value |-> Full_Mlsag_Verify(out.proof),
                            proof |-> out.proof]
    /\ UNCHANGED <<pureCall, notPureVars>>

\* var SingleBulletParam = newBulletproofParams(1) and
\* var BulletParam = newBulletproofParams(nOutPreComputeParam): the value
\* kept is the indices the generators were hashed from
NewParamsCall ==
    /\ pureCall.fn = "newBulletproofParams"
    /\ ~pureRet.done
    /\ pureRet' = [done |-> TRUE, res |-> "ok",
                   value |-> GeneratorIndices(pureCall.m)]
    /\ UNCHANGED <<pureCall, notPureVars>>

\* new(Scalar).FromUint64(x).ToUint64()
ToUint64Call ==
    /\ pureCall.fn = "ToUint64"
    /\ ~pureRet.done
    /\ pureRet' = [done |-> TRUE, res |-> "ok", value |-> ToUint64(d2h(pureCall.x))]
    /\ UNCHANGED <<pureCall, notPureVars>>

\* signedRadix16(k) on a key of 32 bytes
SignedRadix16Call ==
    /\ pureCall.fn = "signedRadix16"
    /\ ~pureRet.done
    /\ LET out == signedRadix16(pureCall.k)
       IN  pureRet' = IF out.res # "ok" THEN [done |-> TRUE, res |-> out.res]
                      ELSE [done |-> TRUE, res |-> "ok", value |-> out.digits]
    /\ UNCHANGED <<pureCall, notPureVars>>

PureNext ==
    \/ PadCall \/ ExpCall \/ MultiScalarMultKeyCall \/ SetParamsCall
    \/ FullMlsagCall \/ NewParamsCall \/ ToUint64Call \/ SignedRadix16Call

SpecPure == PureInit /\ [][PureNext]_vars

(***************************************************************************)
(* Claims on MLSAG                                                         *)
(***************************************************************************)
Verified == verdicts # <<>>

\* C1: a proof made from a valid witness in which c_0 or one response
\* r[i][j] was replaced by a different scalar is rejected by the verifier.
C1_TamperRejected ==
    (ValidWitness(wit) /\ tamper # "none" /\ Verified) => ~verdicts[1].res

\* C2: for every valid witness (n = 8 rows, m >= 2, index in [0, n),
\* dsCols in [1, m], publicKey[index][j] = privateKey[j]*G) the prover
\* returns a proof and no error, and the verifier accepts that proof with
\* no error.
C2_Completeness ==
    ValidWitness(wit) =>
        /\ proveRes \in {"none", "ok"}
        /\ (tamper = "none" => \A k \in DOMAIN verdicts : verdicts[k] = Accept)

C2_Witness ==
    /\ ValidWitness(wit) /\ proveRes = "ok" /\ tamper = "none"
    /\ wit.index = RingSize - 1
    /\ Verified /\ verdicts[1] = Accept

\* C9: two proofs whose witnesses hold the same secret key in double-spend
\* column j carry the same key image I_j, whatever the index, the ring, the
\* message and the randomness are; different secret keys give different
\* key images.
C9_KeyImageLinking ==
    (proveRes = "ok" /\ other # NoProof /\ other.res = "ok") =>
        \A j \in DOMAIN proof.keyImage \cap DOMAIN other.proof.keyImage :
            (wit.privateKey[j] = other.wit.privateKey[j])
                <=> (proof.keyImage[j] = other.proof.keyImage[j])

C9_Witness ==
    /\ proveRes = "ok" /\ other # NoProof /\ other.res = "ok"
    /\ wit.index # other.wit.index /\ wit.message # other.wit.message
    /\ wit.publicKey[0] # other.wit.publicKey[0]
    /\ wit.privateKey[0] = other.wit.privateKey[0]
    /\ wit.privateKey[1] # other.wit.privateKey[1]
    /\ proof.keyImage[0] = other.proof.keyImage[0]

\* C10: a verifier call leaves every field of the proof it is given
\* unchanged; in particular c_0 has the same value after the call as before.
C10_VerifyPure == Verified => proof = sent

(***************************************************************************)
(* Claims on the range proofs                                              *)
(***************************************************************************)
Honest == proveRes = "ok" /\ tamper = "none"

Called(call) == call \in DOMAIN results

\* the last of the five Uint64s, 2^64 - 1
MaxUint64 == Uint64s[Len(Uint64s)]

\* C3: for every witness of m <= 32 values, a power of two or not, with as
\* many blinding scalars as values, Agg_Prove returns a proof and no error,
\* and Agg_Verify and Agg_Verify_Fast both return (true, nil) on that proof.
C3_AggCompleteness ==
    (/\ prover = "agg"
     /\ Len0(wit.values) <= maxNOut
     /\ Len0(wit.rands) = Len0(wit.values)) =>
        /\ proveRes = "ok"
        /\ (tamper = "none" =>
                /\ (Called("slow") => results["slow"] = Accept)
                /\ (Called("fast") => results["fast"] = Accept))

C3_Witness ==
    /\ prover = "agg" /\ Honest
    /\ Len0(wit.values) = maxNOut /\ wit.values[4] = MaxUint64
    /\ Called("slow") /\ results["slow"] = Accept
    /\ Called("fast") /\ results["fast"] = Accept

\* C4: on an honest aggregated proof in which one transmitted field (a V_k,
\* A, S, T1, T2, tau_x, t_hat, mu or a field of the inner-product proof) was
\* replaced by a different valid value, Agg_Verify and Agg_Verify_Fast
\* reject.  Stated here for the field mu, which no verifier reads.
C4_TamperRejected ==
    (prover = "agg" /\ tamper = "mu") =>
        \A call \in DOMAIN results : ~results[call].res

\* C5: for every witness of exactly one value and one blinding scalar,
\* Single_Prove returns a proof and no error, Single_Verify and
\* Single_Verify_Fast return (true, nil) on it, and they do so again on the
\* proof parsed by SetBytes from its Bytes.
C5_SingleCompleteness ==
    (/\ prover = "single"
     /\ Len0(wit.values) = 1 /\ Len0(wit.rands) = 1) =>
        /\ proveRes = "ok"
        /\ (tamper = "none" =>
                /\ parsed.res \in {"none", "ok"}
                /\ \A call \in DOMAIN results : results[call] = Accept)

C5_Witness ==
    /\ prover = "single" /\ Honest
    /\ wit.values[0] = SmallU64(1001)
    /\ parsed.res = "ok"
    /\ DOMAIN results = {"slow", "fast", "parsed.slow", "parsed.fast"}
    /\ \A call \in DOMAIN results : results[call] = Accept

\* C6: on every proof, honest or with a field replaced, the slow and the
\* fast verifier of the same kind return the same verdict: Agg_Verify
\* accepts iff Agg_Verify_Fast accepts, Single_Verify accepts iff
\* Single_Verify_Fast accepts.
C6_VerifierEquivalence ==
    \A target \in {"", "parsed."} :
        (Called(target \o "slow") /\ Called(target \o "fast")) =>
            results[target \o "slow"].res = results[target \o "fast"].res

C6_Witness ==
    /\ prover = "agg" /\ tamper = "innerProductProof.a"
    /\ Called("slow") /\ ~results["slow"].res
    /\ Called("fast") /\ ~results["fast"].res

\* C7: for every proof p a prover returned, SetBytes(Bytes(p)) returns no
\* error and a proof with the same V, A, S, T1, T2, tau_x, t_hat, mu and
\* inner-product proof as p, and each verifier returns on the parsed proof
\* the verdict it returns on p.
C7_RoundTrip ==
    (Honest /\ parsed # NoParse) =>
        /\ parsed.res = "ok"
        /\ parsed.proof = proof
        /\ \A call \in {"slow", "fast"} :
               (Called(call) /\ Called("parsed." \o call)) =>
                   results["parsed." \o call] = results[call]

C7_Witness ==
    /\ prover = "agg" /\ Honest /\ Len0(wit.values) = 7
    /\ parsed.res = "ok" /\ parsed.proof = proof
    /\ Called("slow") /\ Called("parsed.slow")
    /\ results["parsed.slow"] = results["slow"]

\* C8: for every number m of values Agg_Prove accepts, Bytes() of the proof
\* it returns is EstimateAggBulletProofSize(m)
\* = (m + 2*log2(64*pad(m)) + 5)*32 + 5*32 + 2 bytes long.
C8_SerializedSize ==
    (prover = "agg" /\ Honest /\ encoded # <<>>) =>
        Len(encoded) = EstimateAggBulletProofSize(Len0(wit.values))

C8_Witness ==
    /\ prover = "agg" /\ Honest /\ Len0(wit.values) = 7
    /\ encoded # <<>>
    /\ Len(encoded) = (7 + 2 * 9 + 5) * 32 + 5 * 32 + 2

(***************************************************************************)
(* Claims on input shapes and encodings                                    *)
(***************************************************************************)
\* the witnesses C11 names: index outside [0, n), m < 2, dsCols > m, or a
\* public-key matrix that is not n rows of m entries
IllShapedWitness(w) ==
    \/ w.index \notin 0..(RingSize - 1)
    \/ Len0(w.privateKey) < 2
    \/ w.dsCols > Len0(w.privateKey)
    \/ Len0(w.publicKey) # RingSize
    \/ \E i \in 0..(RingSize - 1) : Len0(w.publicKey[i]) # Len0(w.privateKey)

\* C11: for every witness whose index is outside [0, n) (a negative index
\* included), or with m < 2, or dsCols > m, or whose public-key matrix is
\* not n rows of m entries, Mlsag_Prove returns an error and no proof, and
\* does not crash.
C11_ProverShapeErrors ==
    (IllShapedWitness(wit) /\ proveRes # "none") =>
        (proveRes = "error" /\ proof = NoProof)

\* C12: a witness whose values and blindings differ in length, or whose
\* number of values is out of range (more than 32 for Agg_Prove, other than
\* 1 for Single_Prove), makes the prover return an error and no proof
\* without crashing, and so does building such a witness with
\* BulletWitness.Set.
C12_RangeProverShapeErrors ==
    /\ (/\ prover = "agg"
        /\ \/ Len0(wit.values) # Len0(wit.rands)
           \/ Len0(wit.values) > maxNOut)
           => (proveRes = "error" /\ proof = NoProof)
    /\ (/\ prover = "single"
        /\ \/ Len0(wit.values) # Len0(wit.rands)
           \/ Len0(wit.values) # 1)
           => (proveRes = "error" /\ proof = NoProof)
    /\ prover = "set" => proveRes # "panic"

\* C13: BulletProof.SetBytes returns an error, and neither crashes nor
\* reports success, for every byte string that is a truncated proof, the
\* empty byte string included, and for every byte string that holds a
\* non-canonical scalar or an undecodable point.
C13_EncodingErrors ==
    (tamper \in ByteDamages /\ parsed # NoParse) => parsed.res = "error"

\* C14: Mlsag_Verify returns false together with an error for every proof
\* in which some key image I_j (j < dsCols) is not a valid point or c_0 is
\* not a canonical scalar; the hash chain does not decide that verdict.
C14_InvalidKeysRejected ==
    (/\ Verified
     /\ \/ ~ScalarValid(sent.c0)
        \/ \E j \in DOMAIN sent.keyImage : ~PointValid(sent.keyImage[j])) =>
        \A k \in DOMAIN verdicts : verdicts[k] = Reject

C14_Witness ==
    /\ tamper = "keyImage.invalid" /\ Len(verdicts) = 2
    /\ ScalarValid(sent.c0) /\ ~PointValid(sent.keyImage[0])
    /\ verdicts[1] = Reject /\ verdicts[2] = Reject

(***************************************************************************)
(* Claims on the shared generator tables                                   *)
(***************************************************************************)

\* C15: whatever the interleaving of the threads' calls to Single_Prove,
\* Agg_Prove, the four verifiers, getBulletproofParams and
\* setBulletproofParams, every slot of SingleBulletParam and BulletParam
\* (g, h, u, cs) holds what the initialization of the package put there
C15_TablesNeverWritten ==
    \A ref \in DOMAIN tableWrites : tableWrites[ref] = InitialEntry(ref)

\* both provers have run to their last write on different threads at once
C15_Witness ==
    /\ threads[1].op = "Agg_Prove" /\ threads[1].pc = 4
    /\ threads[2].op = "Single_Prove" /\ threads[2].pc = 4
    /\ threads[1].calls = MaxCalls
    /\ EntryNow(SharedRef("BulletParam", "u")) = BulletParam.u


(***************************************************************************)
(* Claims on the functions without side effects                            *)
(***************************************************************************)
PowersOfTwo == {1, 2, 4, 8, 16, 32, 64, 128, 256, 512, 1024}

LeastPowerOfTwo(k) ==
    CHOOSE p \in PowersOfTwo :
        p >= k /\ \A q \in PowersOfTwo : q >= k => p <= q

\* C16: pad(k) returns, for every k the provers and verifiers pass (0 to
\* maxNOut): k itself for k = 1 and k = 2, and the least power of two that
\* is at least k for every k >= 3
C16_PadLeastPowerOfTwo ==
    (pureCall.fn = "pad" /\ pureRet.done) =>
        /\ pureRet.res = "ok"
        /\ pureRet.value \in PowersOfTwo
        /\ pureCall.num \in {1, 2} => pureRet.value = pureCall.num
        /\ pureCall.num >= 3 => pureRet.value = LeastPowerOfTwo(pureCall.num)

\* pad(5) returned 8
C16_Witness ==
    /\ pureCall.fn = "pad" /\ pureCall.num = 5
    /\ pureRet.done /\ pureRet.value = 8

\* C17: for lists of equal length of canonical scalars and valid points,
\* MultiScalarMultKey(points, scalars) is the sum of the scalars[i] *
\* points[i], each computed by a scalar multiplication of its own
C17_MultiScalarMultKeySum ==
    (/\ pureCall.fn = "MultiScalarMultKey" /\ pureRet.done
     /\ Len0(pureCall.points) = Len0(pureCall.scalars)) =>
        /\ pureRet.res = "ok"
        /\ pureRet.value = MultiScalarMult(pureCall.scalars, pureCall.points)

\* two terms, one scalar with a negative lowest digit and a carry, one
\* with a positive digit, and a sum that is not the identity
C17_Witness ==
    /\ pureCall.fn = "MultiScalarMultKey" /\ pureRet.done
    /\ Len0(pureCall.scalars) = 2
    /\ pureCall.scalars[0] = CurveOrder - 1 /\ pureCall.scalars[1] = 7
    /\ pureCall.points[0] # pureCall.points[1]
    /\ pureRet.res = "ok" /\ pureRet.value # Identity

\* C18: Exp(a, v) is a^v mod l, the product of v copies of a, for every
\* scalar a and every v >= 0 (1 for v = 0, a for v = 1)
C18_ExpIsPower ==
    (pureCall.fn = "Exp" /\ pureRet.done) =>
        pureRet.value = ScalarPow(pureCall.a, pureCall.v)


(***************************************************************************)
(* Claims on the hash chain of the ring signature                          *)
(***************************************************************************)

\* C19: the c0 of the proof Mlsag_Prove returns is the challenge it held
\* when i + 1 = 0 mod n, the one made by hashing row n - 1, for every
\* index in 0..n-1; the later steps of the chain do not change it
C19_RecordedC0Kept ==
    (proveRes = "ok" /\ tamper = "none" /\ wit.index \in 0..(RingSize - 1)) =>
        proof.c0 = MlsagProveRun(wit, seed).cAtZero


\* C20: for every row i the prover hashes in its loop, the bytes it
\* hashes are those the verifier hashes for row i from the same c, r, key
\* images and public keys: the message, then PK[i][j], L, R for j < dsCols,
\* then PK[i][j], L for j >= dsCols
C20_TranscriptAgreement ==
    (proveRes = "ok" /\ tamper = "none" /\ wit.index \in 0..(RingSize - 1)) =>
        \A i \in (0..(RingSize - 1)) \ {wit.index} :
            \A c \in 1..(CurveOrder - 1) :
                MlsagProveRowBytes(wit, i, proof.r[i], c, proof.keyImage)
                    = MlsagVerifyRowBytes(proof, i, c)

\* C21: for every j < dsCols the key image in the proof is
\* sk_j * hash_to_point(PK[index][j]), the hash applied once, so that the
\* R the verifier recomputes at row index from r[index][j] and the
\* challenge entering that row is alpha_j * hash_to_point(PK[index][j])
C21_KeyImageHashedOnce ==
    (proveRes = "ok" /\ tamper = "none" /\ wit.index \in 0..(RingSize - 1)) =>
        \A j \in 0..(wit.dsCols - 1) :
            LET Hi == HashToPoint(PointToBytes(wit.publicKey[wit.index][j]))
            IN  /\ proof.keyImage[j] = ScalarMult(Hi, wit.privateKey[j])
                /\ AddPedersen(proof.r[wit.index][j], Hi,
                               MlsagProveRun(wit, seed).c, proof.keyImage[j])
                       = ScalarMult(Hi, MlsagAlpha(wit, seed)[j])

\* C27: for every index in [0, n) the prover's loop "for i != index" ends
\* after exactly n - 1 iterations, which ran with i = index+1, index+2, ...,
\* index-1 (mod n) in that order, each row once; in the proof returned r
\* has n rows of m scalars, none left nil: the loop filled every row but
\* row index, the closing step filled row index
C27_RingTraversal ==
    (proveRes = "ok" /\ tamper = "none") =>
        LET n == RingSize
            m == Len0(wit.privateKey)
            fin == MlsagProveRun(wit, seed)
        IN  /\ wit.index \in 0..(n - 1)
            /\ fin.t = n - 1
            /\ fin.rows = [k \in 1..(n - 1) |-> (wit.index + k) % n]
            /\ DOMAIN proof.r = 0..(n - 1)
            /\ \A i \in 0..(n - 1) :
                   /\ DOMAIN proof.r[i] = 0..(m - 1)
                   /\ \A j \in 0..(m - 1) :
                          /\ proof.r[i][j] # NilScalar
                          /\ proof.r[i][j] \in 0..(CurveOrder - 1)
                          /\ i # wit.index => proof.r[i][j] = fin.r[i][j]
                          /\ i = wit.index => fin.r[i][j] = NilScalar

C27_Witness ==
    /\ proveRes = "ok" /\ tamper = "none"
    /\ wit.index = 2
    /\ MlsagProveRun(wit, seed).rows = <<3, 4, 5, 6, 7, 0, 1>>
    /\ \A i \in 0..(RingSize - 1) : \A j \in DOMAIN wit.privateKey :
           proof.r[i][j] # NilScalar
    /\ verdicts # <<>> /\ verdicts[1].res

(***************************************************************************)
(* Claims on the range proofs' inner-product statement and challenges      *)
(***************************************************************************)

\* C22: a range proof whose fields of statement 1 are the prover's but
\* whose inner-product part was made for unrelated vectors is rejected by
\* every verifier: the point P the inner-product verifier checks is the one
\* the outer proof and its challenges determine
C22_InnerProductBound ==
    tamper = "innerProductProof.unrelated" =>
        \A call \in DOMAIN results : ~results[call].res

\* what the range prover hashed for y, z and x on the witness it was given:
\* its generator commitment, its value commitment where it has one, and
\* the messages A, S, T1, T2 it put in the proof
ProverCs == IF prover = "agg" THEN getBulletproofParams(pad(Len0(wit.values))).cs
            ELSE SingleBulletParam.cs

ProverV == IF prover = "agg" THEN <<>>
           ELSE <<PointToBytes(AddPedersenBase(FromUint64(wit.values[0]), wit.rands[0]))>>

ProverY == generateChallenge(ProverTranscript("y", ProverCs, ProverV,
                                 [A |-> proof.a, S |-> proof.s]))

ProverHashed(which) ==
    ProverTranscript(which, ProverCs, ProverV,
                     [A |-> proof.a, S |-> proof.s, y |-> ProverY,
                      T1 |-> proof.t1, T2 |-> proof.t2])

\* what the verifiers hash for y, z and x on the proof they are given
VerifierCs == IF prover = "agg" THEN VerifierParam(proof, "agg").cs
              ELSE SingleBulletParam.cs

VerifierV == IF prover = "agg" THEN <<>> ELSE <<PointToBytes(proof.comValues[0])>>

VerifierY == generateChallenge(VerifierTranscript("y", VerifierCs, VerifierV, proof, 0))

VerifierHashed(which) ==
    VerifierTranscript(which, VerifierCs, VerifierV, proof, VerifierY)

\* C24: on every proof a range prover returned, the verifier recalculates
\* y, z and x from the byte strings the prover hashed, in the prover's
\* order: cs first, then V in the single variant and nothing in the
\* aggregated one, then A and S, then nothing for y, y for z, and T1, T2 for
\* x; so the verifier's (y, z, x) are the prover's
C24_ChallengeOrder ==
    (proveRes = "ok" /\ prover \in {"agg", "single"} /\ tamper = "none") =>
        /\ \A which \in {"y", "z", "x"} :
               /\ VerifierHashed(which) = ProverHashed(which)
               /\ generateChallenge(VerifierHashed(which))
                      = generateChallenge(ProverHashed(which))
               /\ VerifierHashed(which)[1] = ProverCs
               /\ Len(VerifierHashed(which))
                      = (IF prover = "single" THEN 4 ELSE 3)
                        + (CASE which = "y" -> 0 [] which = "z" -> 1 [] OTHER -> 2)
        /\ VerifierHashed("z")[Len(VerifierHashed("z"))] = ScalarToBytes(ProverY)
        /\ prover = "single" => VerifierHashed("y")[2] = ProverV[1]
        /\ prover = "agg" => VerifierHashed("y")[2] = PointToBytes(proof.a)

C24_Witness ==
    /\ prover = "agg" /\ Honest
    /\ Len0(wit.values) = 3
    /\ Called("slow") /\ results["slow"] = Accept
    /\ Called("fast") /\ results["fast"] = Accept
    /\ VerifierHashed("x") = ProverHashed("x")
    /\ Len(VerifierHashed("x")) = 5


\* C28: two runs of MultiScalarMultKey on the same points and the same
\* number of scalars execute the same sequence of branches and
\* conditional-move calls, whatever the scalars are: no branch depends on
\* a digit of a scalar
C28_SelectionConstantTime ==
    (pureCall.fn = "MultiScalarMultKey" /\ pureRet.done /\ pureRet.res = "ok") =>
        \A scalars \in [DOMAIN pureCall.scalars -> ScalarInputs] :
            MultiScalarMultKeyTrace(pureCall.points, scalars) = pureRet.trace

\* C29: for every 64-bit unsigned x, ToUint64(FromUint64(x)) = x, where
\* FromUint64 stores x in the 32 little-endian bytes of the scalar
C29_Uint64RoundTrip ==
    (pureCall.fn = "ToUint64" /\ pureRet.done) => pureRet.value = pureCall.x

\* the sum of d[i] * 16^i over i >= n is the sum of u[i] * 16^i over
\* i >= n plus borrow: the difference of the digits at n, with the borrow,
\* is a multiple of 16 that is carried to n + 1, and nothing is left after
\* digit 63
RECURSIVE RadixSumsEqual(_, _, _, _)
RadixSumsEqual(d, u, n, borrow) ==
    IF n > 63 THEN borrow = 0
    ELSE LET diff == d[n] - u[n] + borrow
         IN  diff % 16 = 0 /\ RadixSumsEqual(d, u, n + 1, diff \div 16)

\* the digits as step i of the recentring loop finds them
DigitsBefore(k, i) ==
    IF i = 0 THEN UnsignedRadix16(k)
    ELSE RecenterRange(UnsignedRadix16(k), 0, i - 1)

\* C30: for every key k of 32 bytes with the top bit of byte 31 clear,
\* signedRadix16 returns 64 digits, each in [-8, 8] and those below the
\* last in [-8, 7], whose sum of d_i * 16^i is the integer k, and no step of
\* the recentring loop leaves the range of int8; for a key with the top
\* bit set it panics
C30_SignedRadix16 ==
    (pureCall.fn = "signedRadix16" /\ pureRet.done) =>
        IF pureCall.k[31] > 127 THEN pureRet.res = "panic"
        ELSE /\ pureRet.res = "ok"
             /\ DOMAIN pureRet.value = 0..63
             /\ \A i \in 0..63 : pureRet.value[i] \in -8..8
             /\ \A i \in 0..62 : pureRet.value[i] \in -8..7
             /\ RadixSumsEqual(pureRet.value, UnsignedRadix16(pureCall.k), 0, 0)
             /\ \A i \in 0..62 :
                    LET wide == RecenterWide(DigitsBefore(pureCall.k, i), i)
                    IN  \A f \in DOMAIN wide : wide[f] \in -128..127

C30_Witness ==
    /\ pureCall.fn = "signedRadix16" /\ pureRet.done /\ pureRet.res = "ok"
    /\ pureCall.k[0] = 255 /\ pureCall.k[1] = 248 /\ pureCall.k[31] = 127
    /\ pureRet.value[0] = -1 /\ pureRet.value[63] = 8

\* every index newBulletproofParams(m) hashes a generator from
IndexSet(index) ==
    {index.g[i] : i \in DOMAIN index.g} \cup {index.h[i] : i \in DOMAIN index.h}
        \cup {index.u}

\* C26: within a parameter set the indices of g_i, of h_i and of u are
\* pairwise different for all i below the capacity, and no index of the
\* single parameter set is an index of the aggregated parameter set
C26_IndexSpacesDistinct ==
    (pureCall.fn = "newBulletproofParams" /\ pureRet.done) =>
        LET index == pureRet.value
            others == GeneratorIndices(IF pureCall.m = 1 THEN nOutPreComputeParam
                                       ELSE 1)
        IN  /\ Cardinality(IndexSet(index)) = 2 * maxExp * pureCall.m + 1
            /\ IndexSet(index) \cap IndexSet(others) = {}

(***************************************************************************)
(* Claims on MLSAG with a key image for every column                       *)
(***************************************************************************)
\* C25: for every index in [0, n), index = n - 1 included, Mlsag_Prove of
\* the witness without dsCols returns a proof with no error and no panic,
\* and Mlsag_Verify returns true on that proof
C25_FullProveEveryIndex ==
    (pureCall.fn = "Mlsag_Prove" /\ pureRet.done
        /\ pureCall.index \in 0..(RingSize - 1)) =>
            pureRet.res = "ok" /\ pureRet.value


\* C23: for inputs of equal length setBulletproofParams(g, h) returns
\* parameters whose g and h are the given g and h, entry by entry, and
\* whose cs is the hash of those g, h and of u; for inputs of different
\* length it returns an error
C23_SetParamsUsesInputs ==
    (pureCall.fn = "setBulletproofParams" /\ pureRet.done) =>
        LET g == SetParamsG
            h == SetParamsH(pureCall.y, pureCall.cut)
        IN  IF Len0(g) # Len0(h) THEN pureRet.res = "error"
            ELSE /\ pureRet.res = "ok"
                 /\ pureRet.value.g = g
                 /\ pureRet.value.h = h
                 /\ pureRet.value.cs =
                        ScalarToBytes(HashToScalar(
                            ParamCsBytes(g, h, BulletParam.u)))

====
